---- MODULE Spec2Model ----
(***************************************************************************)
(* Model of the minefield engine of iced-minesweep-rs (src/minefield.rs):  *)
(* the grid of spots, mine placement (new / with_mines / place_mine), and  *)
(* the player operations step, auto_step, toggle_flag and is_cleared.      *)
(***************************************************************************)
EXTENDS Integers, Sequences, FiniteSets, TLC

(***************************************************************************)
(* Bounds of the model.                                                    *)
(***************************************************************************)
\* largest width argument handed to Minefield::new
MaxWidth == 3
\* largest height argument handed to Minefield::new
MaxHeight == 2
\* largest number of spots (width * height) of a modelled field
MaxSpots == 4
\* largest mine count argument handed to with_mines
MaxMines == 2
\* largest width and height of the fields neighbors_coords is called on by itself
MaxGridDim == 4
\* largest number of spots of the fields place_mine is called on by itself
MaxPlaceSpots == 9
\* last reading of the clock of the application
MaxTime == 1
\* largest width, height and mine count of the games the application is set to
MaxConfigWidth == 3
MaxConfigHeight == 1
MaxConfigMines == 2
\* largest width of the games the application is set to while its clock is followed
MaxClockWidth == 2
\* longest time of a won game, in seconds, and longest list of scores read from the file
MaxSeconds == 1
MaxLoaded == 4

\* u16::MAX, the largest coordinate value (neighbors_coords guards x + 1, y + 1)
U16Max == 65535

(***************************************************************************)
(* Spot, SpotKind, SpotState                                               *)
(***************************************************************************)
Mine == <<"Mine">>

Empty(n) == <<"Empty", n>>

IsMine(kind) == kind[1] = "Mine"

IsEmpty(kind) == kind[1] = "Empty"

\* the n of Empty(n)
Count(kind) == kind[2]

SpotState == {"Hidden", "Revealed", "Flagged", "Exploded"}

\* impl Default for Spot
DefaultSpot == [kind |-> Empty(0), state |-> "Hidden"]

VARIABLES
    width,            \* Minefield.width
    height,           \* Minefield.height
    mines,            \* Minefield.mines
    field,            \* Minefield.field, field[x][y] with x < width, y < height
    pc,               \* "new": constructed; "with_mines": inside the placement loop; "play": built
    spots_remaining,  \* local of with_mines: indices of the spots not yet mined
    placed,           \* local of with_mines: iterations of the placement loop done so far
    args,             \* the arguments given to new and with_mines
    call,             \* the last operation called on the field, with its arguments
    result,           \* what that operation returned
    pre,              \* the field as it was when that operation was called
    pushes,           \* the coordinates the last step pushed on its worklist, in order
    neighbors,        \* the items the last neighbors_coords call yielded, in order
    game_state,       \* Minesweep.game_state
    main_view,        \* Minesweep.main_view, the view shown
    elapsed_seconds,  \* Minesweep.elapsed_seconds
    remaining_flags,  \* Minesweep.remaining_flags
    game_config,      \* Minesweep.game_config
    now,              \* the clock read by Instant::now()
    message,          \* the last message update handled
    high_scores,      \* Minesweep.high_scores: the scores of each difficulty level, as seconds
    location,         \* the HighScoreLocation held by the Enter High Score view
    hs_call,          \* the last operation on the high scores, with its arguments
    hs_result         \* what insert_high_score returned last

\* the high scores of the application and what follows the calls made on them
scores == <<high_scores, location, hs_call, hs_result>>

\* the fields of the application around the field, and its clock
app == <<game_state, main_view, elapsed_seconds, remaining_flags, game_config, now, message,
         scores>>

vars == <<width, height, mines, field, pc, spots_remaining, placed, args, call, result, pre, pushes,
          neighbors, app>>

(***************************************************************************)
(* Minefield::new                                                          *)
(***************************************************************************)
\* a width of zero kept as it is (not what the code does)
NewWidthKeepsZero(w) == w

NewWidth(w) == IF w = 0 THEN 1 ELSE w

NewHeight(h) == IF h = 0 THEN 1 ELSE h

\* the grid built height by width instead of width by height (not what the code does)
NewFieldTransposed(w, h) ==
    [x \in 0..(NewHeight(h) - 1) |-> [y \in 0..(NewWidth(w) - 1) |-> DefaultSpot]]

NewField(w, h) == [x \in 0..(NewWidth(w) - 1) |-> [y \in 0..(NewHeight(h) - 1) |-> DefaultSpot]]

(***************************************************************************)
(* Minefield::spot / spot_mut: Some exactly for in-bounds coordinates      *)
(***************************************************************************)
InBounds(w, h, x, y) == (x < w) /\ (y < h)

(***************************************************************************)
(* Minefield::neighbors_coords: the iterator's items, in iteration order   *)
(***************************************************************************)
\* the neighbourhood without the test that drops (x, y) itself (not what the code does)
NeighborsCoordsWithSelf(w, h, x, y) ==
    LET min_x == IF x > 0 THEN x - 1 ELSE x
        max_x == IF x < U16Max THEN x + 1 ELSE x
        min_y == IF y > 0 THEN y - 1 ELSE y
        max_y == IF y < U16Max THEN y + 1 ELSE y
        ny == max_y - min_y + 1
        all == [k \in 1..((max_x - min_x + 1) * ny) |->
                    <<min_x + ((k - 1) \div ny), min_y + ((k - 1) % ny)>>]
    IN SelectSeq(all, LAMBDA c: c[1] < w /\ c[2] < h)

NeighborsCoords(w, h, x, y) ==
    LET min_x == IF x > 0 THEN x - 1 ELSE x
        max_x == IF x < U16Max THEN x + 1 ELSE x
        min_y == IF y > 0 THEN y - 1 ELSE y
        max_y == IF y < U16Max THEN y + 1 ELSE y
        ny == max_y - min_y + 1
        all == [k \in 1..((max_x - min_x + 1) * ny) |->
                    <<min_x + ((k - 1) \div ny), min_y + ((k - 1) % ny)>>]
    IN SelectSeq(all, LAMBDA c: c[1] < w /\ c[2] < h /\ ~(c[1] = x /\ c[2] = y))

(***************************************************************************)
(* Minefield::spot: Some(spot) for in-bounds coordinates, None otherwise   *)
(***************************************************************************)
SpotAt(f, w, h, x, y) == IF InBounds(w, h, x, y) THEN <<"Some", f[x][y]>> ELSE <<"None">>

\* f with the state of the spot at (x, y) set to st
SetState(f, x, y, st) == [f EXCEPT ![x][y].state = st]

(***************************************************************************)
(* Minefield::place_mine                                                   *)
(***************************************************************************)
RECURSIVE IncrNeighbors(_, _, _)
\* the loop over the neighbours of a new mine, from item k of nbs on
IncrNeighbors(f, nbs, k) ==
    IF k > Len(nbs) THEN f
    ELSE LET nx == nbs[k][1]
             ny == nbs[k][2]
             kind == f[nx][ny].kind
         IN IF IsEmpty(kind)
            THEN IncrNeighbors([f EXCEPT ![nx][ny].kind = Empty(Count(kind) + 1)], nbs, k + 1)
            ELSE IncrNeighbors(f, nbs, k + 1)

PlaceMineNoNeighborUpdate(f, w, h, x, y) ==
    IF IsEmpty(f[x][y].kind) THEN [f EXCEPT ![x][y].kind = Mine] ELSE f

\* place_mine without the test of the kind of the spot: the neighbours of a spot
\* that already is a mine are counted again (not what the code does)
PlaceMineCountsAgain(f, w, h, x, y) ==
    IncrNeighbors([f EXCEPT ![x][y].kind = Mine], NeighborsCoords(w, h, x, y), 1)

PlaceMine(f, w, h, x, y) ==
    IF IsEmpty(f[x][y].kind)
    THEN IncrNeighbors([f EXCEPT ![x][y].kind = Mine], NeighborsCoords(w, h, x, y), 1)
    ELSE f

(***************************************************************************)
(* Minefield::with_mines                                                   *)
(***************************************************************************)
\* the number of mines with_mines keeps: the request, limited to the number of spots
LimitMinesNoLimit(count, w, h) == count

LimitMines(count, w, h) == IF count <= w * h THEN count ELSE w * h

\* removal of the last element whatever index_rm is, the picked one staying in the
\* list (not what the code does)
SwapRemoveDropsLast(v, index_rm) == [k \in 1..(Len(v) - 1) |-> v[k]]

\* Vec::swap_remove(index_rm), 0-based: the last element takes the removed one's place
SwapRemove(v, index_rm) ==
    LET last == v[Len(v)]
    IN [k \in 1..(Len(v) - 1) |-> IF k = index_rm + 1 THEN last ELSE v[k]]

IndexX(index, w) == index % w

IndexY(index, w) == index \div w

(***************************************************************************)
(* Minefield::step                                                         *)
(***************************************************************************)
RECURSIVE RevealNeighborsThroughFlags(_, _, _, _, _)
\* the loop over the neighbours revealing flagged spots too (not what the code does)
RevealNeighborsThroughFlags(f, st, log, nbs, k) ==
    IF k > Len(nbs) THEN [field |-> f, stack |-> st, pushes |-> log]
    ELSE LET nb_x == nbs[k][1]
             nb_y == nbs[k][2]
             spot == f[nb_x][nb_y]
         IN IF spot.state \in {"Hidden", "Flagged"} /\ IsEmpty(spot.kind)
            THEN IF Count(spot.kind) = 0
                 THEN RevealNeighborsThroughFlags(SetState(f, nb_x, nb_y, "Revealed"),
                                      Append(st, nbs[k]), Append(log, nbs[k]), nbs, k + 1)
                 ELSE RevealNeighborsThroughFlags(SetState(f, nb_x, nb_y, "Revealed"),
                                      st, log, nbs, k + 1)
            ELSE RevealNeighborsThroughFlags(f, st, log, nbs, k + 1)

RECURSIVE RevealNeighbors(_, _, _, _, _)
\* the for loop over the neighbours of a popped spot, from item k of nbs on;
\* st is the worklist spots_to_visit, log the pushes made so far
RevealNeighbors(f, st, log, nbs, k) ==
    IF k > Len(nbs) THEN [field |-> f, stack |-> st, pushes |-> log]
    ELSE LET nb_x == nbs[k][1]
             nb_y == nbs[k][2]
             spot == f[nb_x][nb_y]
         IN IF spot.state = "Hidden" /\ IsEmpty(spot.kind)
            THEN IF Count(spot.kind) = 0
                 THEN RevealNeighbors(SetState(f, nb_x, nb_y, "Revealed"),
                                      Append(st, nbs[k]), Append(log, nbs[k]), nbs, k + 1)
                 ELSE RevealNeighbors(SetState(f, nb_x, nb_y, "Revealed"), st, log, nbs, k + 1)
            ELSE RevealNeighbors(f, st, log, nbs, k + 1)

RECURSIVE FloodRevealAtDequeue(_, _, _, _, _)
\* the loop with a zero-count spot revealed when it is popped instead of when it is
\* pushed (not what the code does)
FloodRevealAtDequeue(f, w, h, st, log) ==
    IF st = <<>> THEN [field |-> f, pushes |-> log]
    ELSE LET top == st[Len(st)]
             nbs == NeighborsCoords(w, h, top[1], top[2])
             hid == SelectSeq(nbs, LAMBDA c: /\ f[c[1]][c[2]].state = "Hidden"
                                             /\ IsEmpty(f[c[1]][c[2]].kind))
             zero == SelectSeq(hid, LAMBDA c: Count(f[c[1]][c[2]].kind) = 0)
             shown == {top} \cup ({hid[k] : k \in 1..Len(hid)} \ {zero[k] : k \in 1..Len(zero)})
             g == [i \in DOMAIN f |-> [j \in DOMAIN f[i] |->
                      IF <<i, j>> \in shown THEN [f[i][j] EXCEPT !.state = "Revealed"]
                      ELSE f[i][j]]]
         IN FloodRevealAtDequeue(g, w, h, SubSeq(st, 1, Len(st) - 1) \o zero, log \o zero)

RECURSIVE FloodReveal(_, _, _, _, _)
\* the while-let loop: pop the last spot of the worklist and visit its neighbours
FloodReveal(f, w, h, st, log) ==
    IF st = <<>> THEN [field |-> f, pushes |-> log]
    ELSE LET top == st[Len(st)]
             r == RevealNeighbors(f, SubSeq(st, 1, Len(st) - 1), log,
                                  NeighborsCoords(w, h, top[1], top[2]), 1)
         IN FloodReveal(r.field, w, h, r.stack, r.pushes)

\* step on a mine of a hidden or flagged spot only (not what the code does)
StepGuardsMineState(f, w, h, x, y) ==
    IF InBounds(w, h, x, y)
    THEN IF IsMine(f[x][y].kind)
         THEN [field |-> IF f[x][y].state = "Flagged" THEN f ELSE SetState(f, x, y, "Exploded"),
               result |-> "Boom", pushes |-> <<>>]
         ELSE [field |-> SetState(f, x, y, "Revealed"), result |-> "Phew", pushes |-> <<>>]
    ELSE [field |-> f, result |-> "Invalid", pushes |-> <<>>]

\* step with the flood reveal started for every empty spot (not what the code does)
StepFloodsAlways(f, w, h, x, y) ==
    IF InBounds(w, h, x, y)
    THEN IF IsMine(f[x][y].kind)
         THEN [field |-> SetState(f, x, y, "Exploded"), result |-> "Boom", pushes |-> <<>>]
         ELSE LET r == FloodReveal(SetState(f, x, y, "Revealed"), w, h, <<<<x, y>>>>, <<<<x, y>>>>)
              IN [field |-> r.field, result |-> "Phew", pushes |-> r.pushes]
    ELSE [field |-> f, result |-> "Invalid", pushes |-> <<>>]

\* step that shows a mine as a revealed spot instead of exploding it (not what the code does)
StepRevealsMine(f, w, h, x, y) ==
    IF InBounds(w, h, x, y)
    THEN IF IsMine(f[x][y].kind)
         THEN [field |-> SetState(f, x, y, "Revealed"), result |-> "Boom", pushes |-> <<>>]
         ELSE LET g == SetState(f, x, y, "Revealed")
              IN IF Count(f[x][y].kind) = 0
                 THEN LET r == FloodReveal(g, w, h, <<<<x, y>>>>, <<<<x, y>>>>)
                      IN [field |-> r.field, result |-> "Phew", pushes |-> r.pushes]
                 ELSE [field |-> g, result |-> "Phew", pushes |-> <<>>]
    ELSE [field |-> f, result |-> "Invalid", pushes |-> <<>>]

\* step that hides again an empty spot that was revealed (not what the code does)
StepHidesRevealed(f, w, h, x, y) ==
    IF InBounds(w, h, x, y)
    THEN IF IsMine(f[x][y].kind)
         THEN [field |-> SetState(f, x, y, "Exploded"), result |-> "Boom", pushes |-> <<>>]
         ELSE IF f[x][y].state = "Revealed"
              THEN [field |-> SetState(f, x, y, "Hidden"), result |-> "Phew", pushes |-> <<>>]
              ELSE LET g == SetState(f, x, y, "Revealed")
                   IN IF Count(f[x][y].kind) = 0
                      THEN LET r == FloodReveal(g, w, h, <<<<x, y>>>>, <<<<x, y>>>>)
                           IN [field |-> r.field, result |-> "Phew", pushes |-> r.pushes]
                      ELSE [field |-> g, result |-> "Phew", pushes |-> <<>>]
    ELSE [field |-> f, result |-> "Invalid", pushes |-> <<>>]

\* step with the coordinates clamped into the grid (not what the code does)
StepClamped(f, w, h, x, y) ==
    LET cx == IF x < w THEN x ELSE w - 1
        cy == IF y < h THEN y ELSE h - 1
    IN IF IsMine(f[cx][cy].kind)
       THEN [field |-> SetState(f, cx, cy, "Exploded"), result |-> "Boom", pushes |-> <<>>]
       ELSE [field |-> SetState(f, cx, cy, "Revealed"), result |-> "Phew", pushes |-> <<>>]

\* step without flood reveal (not what the code does)
StepNoFlood(f, w, h, x, y) ==
    IF InBounds(w, h, x, y)
    THEN IF IsMine(f[x][y].kind)
         THEN [field |-> SetState(f, x, y, "Exploded"), result |-> "Boom", pushes |-> <<>>]
         ELSE [field |-> SetState(f, x, y, "Revealed"), result |-> "Phew", pushes |-> <<>>]
    ELSE [field |-> f, result |-> "Invalid", pushes |-> <<>>]

\* step that resets the spot it reveals to a fresh revealed spot, losing its
\* neighbour-mine count (not what the code does)
StepResetsSpot(f, w, h, x, y) ==
    IF InBounds(w, h, x, y)
    THEN IF IsMine(f[x][y].kind)
         THEN [field |-> SetState(f, x, y, "Exploded"), result |-> "Boom", pushes |-> <<>>]
         ELSE LET g == [f EXCEPT ![x][y] = [kind |-> Empty(0), state |-> "Revealed"]]
              IN IF Count(f[x][y].kind) = 0
                 THEN LET r == FloodReveal(g, w, h, <<<<x, y>>>>, <<<<x, y>>>>)
                      IN [field |-> r.field, result |-> "Phew", pushes |-> r.pushes]
                 ELSE [field |-> g, result |-> "Phew", pushes |-> <<>>]
    ELSE [field |-> f, result |-> "Invalid", pushes |-> <<>>]

\* the field after step(x, y), what step returns, and the worklist pushes it made
StepOp(f, w, h, x, y) ==
    IF InBounds(w, h, x, y)
    THEN IF IsMine(f[x][y].kind)
         THEN [field |-> SetState(f, x, y, "Exploded"), result |-> "Boom", pushes |-> <<>>]
         ELSE LET g == SetState(f, x, y, "Revealed")
              IN IF Count(f[x][y].kind) = 0
                 THEN LET r == FloodReveal(g, w, h, <<<<x, y>>>>, <<<<x, y>>>>)
                      IN [field |-> r.field, result |-> "Phew", pushes |-> r.pushes]
                 ELSE [field |-> g, result |-> "Phew", pushes |-> <<>>]
    ELSE [field |-> f, result |-> "Invalid", pushes |-> <<>>]

(***************************************************************************)
(* Minefield::auto_step                                                    *)
(***************************************************************************)
\* placed_flags: the neighbours of (x, y) whose state is Flagged
PlacedFlags(f, w, h, x, y) ==
    Len(SelectSeq(NeighborsCoords(w, h, x, y), LAMBDA c: f[c[1]][c[2]].state = "Flagged"))

RECURSIVE AutoStepLoopGoesOn(_, _, _, _, _)
\* the chord loop without the early return: a Boom is remembered and the loop
\* goes on with the next neighbours (not what the code does)
AutoStepLoopGoesOn(f, w, h, nbs, k) ==
    IF k > Len(nbs) THEN [field |-> f, result |-> "Phew"]
    ELSE LET nx == nbs[k][1]
             ny == nbs[k][2]
         IN IF f[nx][ny].state = "Hidden"
            THEN LET r == StepOp(f, w, h, nx, ny)
                     rest == AutoStepLoopGoesOn(r.field, w, h, nbs, k + 1)
                 IN IF r.result # "Phew"
                    THEN [field |-> rest.field, result |-> r.result]
                    ELSE rest
            ELSE AutoStepLoopGoesOn(f, w, h, nbs, k + 1)

RECURSIVE AutoStepLoopStepsFlagged(_, _, _, _, _)
\* the chord loop stepping on the flagged neighbours too (not what the code does)
AutoStepLoopStepsFlagged(f, w, h, nbs, k) ==
    IF k > Len(nbs) THEN [field |-> f, result |-> "Phew"]
    ELSE LET nx == nbs[k][1]
             ny == nbs[k][2]
         IN IF f[nx][ny].state \in {"Hidden", "Flagged"}
            THEN LET r == StepOp(f, w, h, nx, ny)
                 IN IF r.result # "Phew"
                    THEN [field |-> r.field, result |-> r.result]
                    ELSE AutoStepLoopStepsFlagged(r.field, w, h, nbs, k + 1)
            ELSE AutoStepLoopStepsFlagged(f, w, h, nbs, k + 1)

RECURSIVE AutoStepLoop(_, _, _, _, _)
\* the for loop over the neighbours of the chorded spot, from item k of nbs on
AutoStepLoop(f, w, h, nbs, k) ==
    IF k > Len(nbs) THEN [field |-> f, result |-> "Phew"]
    ELSE LET nx == nbs[k][1]
             ny == nbs[k][2]
         IN IF f[nx][ny].state = "Hidden"
            THEN LET r == StepOp(f, w, h, nx, ny)
                 IN IF r.result # "Phew"
                    THEN [field |-> r.field, result |-> r.result]
                    ELSE AutoStepLoop(r.field, w, h, nbs, k + 1)
            ELSE AutoStepLoop(f, w, h, nbs, k + 1)

\* auto_step that does not compare the flags with the mine count (not what the code does)
AutoStepIgnoresFlags(f, w, h, x, y) ==
    IF InBounds(w, h, x, y) /\ IsEmpty(f[x][y].kind)
    THEN IF f[x][y].state = "Revealed"
         THEN AutoStepLoop(f, w, h, NeighborsCoords(w, h, x, y), 1)
         ELSE [field |-> f, result |-> "Phew"]
    ELSE [field |-> f, result |-> "Invalid"]

\* auto_step that checks the chord and then steps on nothing (not what the code does)
AutoStepNoReveal(f, w, h, x, y) ==
    IF InBounds(w, h, x, y) /\ IsEmpty(f[x][y].kind)
    THEN [field |-> f, result |-> "Phew"]
    ELSE [field |-> f, result |-> "Invalid"]

\* auto_step that answers Phew for a mine spot (not what the code does)
AutoStepMineIsPhew(f, w, h, x, y) ==
    IF InBounds(w, h, x, y)
    THEN IF IsEmpty(f[x][y].kind)
              /\ f[x][y].state = "Revealed"
              /\ PlacedFlags(f, w, h, x, y) = Count(f[x][y].kind)
         THEN AutoStepLoop(f, w, h, NeighborsCoords(w, h, x, y), 1)
         ELSE [field |-> f, result |-> "Phew"]
    ELSE [field |-> f, result |-> "Invalid"]

AutoStepOp(f, w, h, x, y) ==
    IF InBounds(w, h, x, y)
    THEN IF IsEmpty(f[x][y].kind)
         THEN IF f[x][y].state = "Revealed" /\ PlacedFlags(f, w, h, x, y) = Count(f[x][y].kind)
              THEN AutoStepLoop(f, w, h, NeighborsCoords(w, h, x, y), 1)
              ELSE [field |-> f, result |-> "Phew"]
         ELSE [field |-> f, result |-> "Invalid"]
    ELSE [field |-> f, result |-> "Invalid"]

(***************************************************************************)
(* Minefield::is_cleared                                                   *)
(***************************************************************************)
RECURSIVE ClearedFromMinesAnyState(_, _, _, _)
ClearedFromMinesAnyState(f, w, h, k) ==
    IF k >= w * h THEN TRUE
    ELSE LET spot == f[k \div h][k % h]
         IN IF IsEmpty(spot.kind) /\ spot.state # "Revealed" THEN FALSE
            ELSE ClearedFromMinesAnyState(f, w, h, k + 1)

RECURSIVE ClearedFrom(_, _, _, _)
\* the nested for loops, column by column, from spot number k on (k = x * height + y)
ClearedFrom(f, w, h, k) ==
    IF k >= w * h THEN TRUE
    ELSE LET spot == f[k \div h][k % h]
         IN IF IsMine(spot.kind)
            THEN IF spot.state # "Flagged" THEN FALSE ELSE ClearedFrom(f, w, h, k + 1)
            ELSE IF spot.state # "Revealed" THEN FALSE ELSE ClearedFrom(f, w, h, k + 1)

IsClearedMinesAnyState(f, w, h) == ClearedFromMinesAnyState(f, w, h, 0)

IsCleared(f, w, h) == ClearedFrom(f, w, h, 0)

(***************************************************************************)
(* Minefield::toggle_flag                                                  *)
(***************************************************************************)
\* toggle_flag that also flags a revealed spot (not what the code does)
ToggleFlagOnRevealed(f, w, h, x, y) ==
    IF InBounds(w, h, x, y)
    THEN IF f[x][y].state \in {"Hidden", "Revealed"}
         THEN [field |-> SetState(f, x, y, "Flagged"), result |-> "Added"]
         ELSE IF f[x][y].state = "Flagged"
              THEN [field |-> SetState(f, x, y, "Hidden"), result |-> "Removed"]
              ELSE [field |-> f, result |-> "None"]
    ELSE [field |-> f, result |-> "None"]

\* toggle_flag that also flags an exploded spot (not what the code does)
ToggleFlagOnExploded(f, w, h, x, y) ==
    IF InBounds(w, h, x, y)
    THEN IF f[x][y].state \in {"Hidden", "Exploded"}
         THEN [field |-> SetState(f, x, y, "Flagged"), result |-> "Added"]
         ELSE IF f[x][y].state = "Flagged"
              THEN [field |-> SetState(f, x, y, "Hidden"), result |-> "Removed"]
              ELSE [field |-> f, result |-> "None"]
    ELSE [field |-> f, result |-> "None"]

\* toggle_flag that hides every spot that is not Hidden (not what the code does)
ToggleFlagHidesAny(f, w, h, x, y) ==
    IF InBounds(w, h, x, y)
    THEN IF f[x][y].state = "Hidden"
         THEN [field |-> SetState(f, x, y, "Flagged"), result |-> "Added"]
         ELSE [field |-> SetState(f, x, y, "Hidden"), result |-> "Removed"]
    ELSE [field |-> f, result |-> "None"]

ToggleFlagOp(f, w, h, x, y) ==
    IF InBounds(w, h, x, y)
    THEN IF f[x][y].state = "Hidden"
         THEN [field |-> SetState(f, x, y, "Flagged"), result |-> "Added"]
         ELSE IF f[x][y].state = "Flagged"
              THEN [field |-> SetState(f, x, y, "Hidden"), result |-> "Removed"]
              ELSE [field |-> f, result |-> "None"]
    ELSE [field |-> f, result |-> "None"]

(***************************************************************************)
(* The application: GameState, GameConfig, GameDifficulty                  *)
(***************************************************************************)
Ready == [tag |-> "Ready", instant |-> 0, is_won |-> FALSE]

Running(instant) == [tag |-> "Running", instant |-> instant, is_won |-> FALSE]

Paused == [tag |-> "Paused", instant |-> 0, is_won |-> FALSE]

Stopped(is_won) == [tag |-> "Stopped", instant |-> 0, is_won |-> is_won]

GameConfig(w, h, m) == [width |-> w, height |-> h, mines |-> m]

EASY == GameConfig(10, 10, 10)

MEDIUM == GameConfig(16, 16, 40)

HARD == GameConfig(30, 16, 99)

\* GameDifficulty::from_config: the level of a configuration
FromConfig(config) ==
    IF config = EASY THEN "Easy"
    ELSE IF config = MEDIUM THEN "Medium"
    ELSE IF config = HARD THEN "Hard"
    ELSE "Custom"

\* DifficultyLevel::try_from succeeds for the three standard levels only
IsDifficultyLevel(level) == level \in {"Easy", "Medium", "Hard"}

NoMessage == "none"

\* the values of the application's variables where only the field is exercised
(***************************************************************************)
(* The high scores: a list of scores for each standard difficulty level, a  *)
(* score being followed by its seconds (its name orders nothing)            *)
(***************************************************************************)
\* DifficultyLevel
Levels == {"Easy", "Medium", "Hard"}

MAX_HIGH_SCORES_PER_LEVEL == 3

\* BTreeMap::get on a level that has no list, and on a level that has one
Absent == [present |-> FALSE, scores |-> <<>>]

Present(list) == [present |-> TRUE, scores |-> list]

\* BTreeMap::new()
NoHighScores == [level \in Levels |-> Absent]

\* the location held by a view that is not the Enter High Score view
NoLocation == [difficulty_level |-> "Easy", index |-> 0]

NoScoreCall == [op |-> "none", level |-> "Easy", seconds |-> 0]

NoScores ==
    /\ high_scores = NoHighScores
    /\ location = NoLocation
    /\ hs_call = NoScoreCall
    /\ hs_result = <<"-">>

\* Vec::insert(i, e), Vec::truncate(n) and Vec::remove(i), i counting from 0
VecInsert(v, i, e) == SubSeq(v, 1, i) \o <<e>> \o SubSeq(v, i + 1, Len(v))

VecTruncate(v, n) == IF Len(v) > n THEN SubSeq(v, 1, n) ELSE v

VecRemove(v, i) == SubSeq(v, 1, i) \o SubSeq(v, i + 2, Len(v))

RECURSIVE InsertLoopBeforeEqual(_, _, _)
\* the loop putting the score before an entry of the same seconds (not what the code does)
InsertLoopBeforeEqual(list, seconds, i) ==
    IF i >= MAX_HIGH_SCORES_PER_LEVEL THEN [scores |-> list, index |-> <<"None">>]
    ELSE IF i < Len(list)
         THEN IF seconds <= list[i + 1]
              THEN [scores |-> VecTruncate(VecInsert(list, i, seconds), MAX_HIGH_SCORES_PER_LEVEL),
                    index |-> <<"Some", i>>]
              ELSE InsertLoopBeforeEqual(list, seconds, i + 1)
         ELSE [scores |-> Append(list, seconds), index |-> <<"Some", i>>]

RECURSIVE InsertLoop(_, _, _)
\* the for loop of insert_high_score, from i on
InsertLoop(list, seconds, i) ==
    IF i >= MAX_HIGH_SCORES_PER_LEVEL THEN [scores |-> list, index |-> <<"None">>]
    ELSE IF i < Len(list)
         THEN IF seconds < list[i + 1]
              THEN [scores |-> VecTruncate(VecInsert(list, i, seconds), MAX_HIGH_SCORES_PER_LEVEL),
                    index |-> <<"Some", i>>]
              ELSE InsertLoop(list, seconds, i + 1)
         ELSE [scores |-> Append(list, seconds), index |-> <<"Some", i>>]

\* the high scores after insert_high_score(level, score), and what it returns
InsertHighScore(hs, level, seconds) ==
    IF hs[level].present
    THEN LET r == InsertLoop(hs[level].scores, seconds, 0)
         IN [high_scores |-> [hs EXCEPT ![level] = Present(r.scores)], index |-> r.index]
    ELSE [high_scores |-> [hs EXCEPT ![level] = Present(<<seconds>>)], index |-> <<"Some", 0>>]

RECURSIVE SortBySeconds(_)
\* scores.sort_by(seconds): a stable sort, every score put after those not above it
SortBySeconds(list) ==
    IF list = <<>> THEN <<>>
    ELSE LET sorted == SortBySeconds(SubSeq(list, 1, Len(list) - 1))
             last == list[Len(list)]
             k == Cardinality({i \in 1..Len(sorted) : sorted[i] <= last})
         IN VecInsert(sorted, k, last)

\* the high scores load_persistence returns for those read from the file
Sanitized(loaded) ==
    [level \in Levels |->
        IF loaded[level].present
        THEN Present(VecTruncate(SortBySeconds(loaded[level].scores), MAX_HIGH_SCORES_PER_LEVEL))
        ELSE Absent]

NoApp ==
    /\ game_state = Ready
    /\ main_view = "Game"
    /\ elapsed_seconds = 0
    /\ remaining_flags = 0
    /\ game_config = GameConfig(0, 0, 0)
    /\ now = 0
    /\ message = NoMessage
    /\ NoScores

(***************************************************************************)
(* Minefield::new(w, h).with_mines(count) as one call, picks being the     *)
(* random indices the placement loop draws, one per iteration              *)
(***************************************************************************)
RECURSIVE PlaceMines(_, _, _, _, _)
\* the placement loop, for the random indices still to draw
PlaceMines(f, w, h, remaining, picks) ==
    IF picks = <<>> THEN f
    ELSE LET index_rm == Head(picks)
             index == remaining[index_rm + 1]
         IN PlaceMines(PlaceMine(f, w, h, IndexX(index, w), IndexY(index, w)),
                       w, h, SwapRemove(remaining, index_rm), Tail(picks))

WithMines(w, h, count, picks) ==
    PlaceMines(NewField(w, h), NewWidth(w), NewHeight(h),
               [k \in 1..(NewWidth(w) * NewHeight(h)) |-> k - 1], picks)

\* the sequences of random indices the loop can draw: gen_range(0..spots_remaining.len())
\* at each of its min(count, width*height) iterations
Picks(w, h, count) ==
    LET spot_count == NewWidth(w) * NewHeight(h)
        n == LimitMines(count, NewWidth(w), NewHeight(h))
    IN {p \in [1..n -> 0..(spot_count - 1)] : \A k \in 1..n : p[k] < spot_count - (k - 1)}

(***************************************************************************)
(* Minesweep::check_ready_to_running, pause_game, resume_game, game_over   *)
(***************************************************************************)
CheckReadyToRunning(gs, elapsed, t) ==
    IF gs.tag = "Ready"
    THEN [game_state |-> Running(t), elapsed_seconds |-> 0]
    ELSE [game_state |-> gs, elapsed_seconds |-> elapsed]

\* a pause that leaves a running game running (not what the code does)
PauseGameNever(gs, elapsed, t) == [game_state |-> gs, elapsed_seconds |-> elapsed]

PauseGame(gs, elapsed, t) ==
    IF gs.tag = "Running"
    THEN [game_state |-> Paused, elapsed_seconds |-> elapsed + (t - gs.instant)]
    ELSE [game_state |-> gs, elapsed_seconds |-> elapsed]

\* a resume that also sets a stopped game going again (not what the code does)
ResumeGameFromStopped(gs, t) == IF gs.tag \in {"Paused", "Stopped"} THEN Running(t) ELSE gs

ResumeGame(gs, t) == IF gs.tag = "Paused" THEN Running(t) ELSE gs

\* the views game_over can leave: the Enter High Score view is shown when a game of a
\* standard level is won and insert_high_score finds a place for its time
GameOverViews(is_won, config, view) ==
    IF is_won /\ IsDifficultyLevel(FromConfig(config))
    THEN {"EnterHighScore", view}
    ELSE {view}

\* the game going on after a step that exploded a mine (not what the code does)
AfterStepIgnoresBoom(gs, r, w, h) ==
    IF r.result = "Phew" /\ IsCleared(r.field, w, h) THEN Stopped(TRUE)
    ELSE gs

\* the game state after a step or auto_step that returned r, on a running game
AfterStep(gs, r, w, h) ==
    IF r.result = "Boom" THEN Stopped(FALSE)
    ELSE IF r.result = "Phew" /\ IsCleared(r.field, w, h) THEN Stopped(TRUE)
    ELSE gs

(***************************************************************************)
(* The state machine                                                       *)
(***************************************************************************)
NoCall == [op |-> "none", x |-> 0, y |-> 0]

\* the state after Minefield::new(w, h)
Init ==
    \E w \in 0..MaxWidth, h \in 0..MaxHeight :
        /\ NewWidth(w) * NewHeight(h) <= MaxSpots
        /\ width = NewWidth(w)
        /\ height = NewHeight(h)
        /\ mines = 0
        /\ field = NewField(w, h)
        /\ pc = "new"
        /\ spots_remaining = <<>>
        /\ placed = 0
        /\ args = [width |-> w, height |-> h, mines |-> 0]
        /\ call = NoCall
        /\ result = "-"
        /\ pre = NewField(w, h)
        /\ pushes = <<>>
        /\ neighbors = <<>>
        /\ NoApp

\* with_mines(count) up to the placement loop
WithMinesEnter(count) ==
    /\ pc = "new"
    /\ pc' = "with_mines"
    /\ mines' = LimitMines(count, width, height)
    /\ spots_remaining' = [k \in 1..(width * height) |-> k - 1]
    /\ placed' = 0
    /\ args' = [args EXCEPT !.mines = count]
    /\ UNCHANGED <<app, neighbors, width, height, field, call, result, pre, pushes>>

\* one iteration of the placement loop, index_rm being the random choice
WithMinesPlace(index_rm) ==
    /\ pc = "with_mines"
    /\ placed < mines
    /\ index_rm < Len(spots_remaining)
    /\ LET index == spots_remaining[index_rm + 1]
           x == IndexX(index, width)
           y == IndexY(index, width)
       IN /\ spots_remaining' = SwapRemove(spots_remaining, index_rm)
          /\ call' = [op |-> "place_mine", x |-> x, y |-> y]
          /\ pre' = field
          /\ field' = PlaceMine(field, width, height, x, y)
    /\ placed' = placed + 1
    /\ result' = "-"
    /\ UNCHANGED <<app, neighbors, width, height, mines, pc, args, pushes>>

\* the placement loop is over: with_mines returns the field
WithMinesReturn ==
    /\ pc = "with_mines"
    /\ placed >= mines
    /\ pc' = "play"
    /\ spots_remaining' = <<>>
    /\ placed' = 0
    /\ call' = NoCall
    /\ result' = "-"
    /\ pre' = field
    /\ UNCHANGED <<app, neighbors, width, height, mines, field, args, pushes>>

Step(x, y) ==
    /\ pc = "play"
    /\ LET r == StepOp(field, width, height, x, y)
       IN /\ field' = r.field
          /\ result' = r.result
          /\ pushes' = r.pushes
    /\ call' = [op |-> "step", x |-> x, y |-> y]
    /\ pre' = field
    /\ UNCHANGED <<app, neighbors, width, height, mines, pc, spots_remaining, placed, args>>

AutoStep(x, y) ==
    /\ pc = "play"
    /\ LET r == AutoStepOp(field, width, height, x, y)
       IN /\ field' = r.field
          /\ result' = r.result
    /\ call' = [op |-> "auto_step", x |-> x, y |-> y]
    /\ pre' = field
    /\ pushes' = <<>>
    /\ UNCHANGED <<app, neighbors, width, height, mines, pc, spots_remaining, placed, args>>

ToggleFlag(x, y) ==
    /\ pc = "play"
    /\ LET r == ToggleFlagOp(field, width, height, x, y)
       IN /\ field' = r.field
          /\ result' = r.result
    /\ call' = [op |-> "toggle_flag", x |-> x, y |-> y]
    /\ pre' = field
    /\ pushes' = <<>>
    /\ UNCHANGED <<app, neighbors, width, height, mines, pc, spots_remaining, placed, args>>

\* a call of is_cleared, which leaves the field alone
IsClearedCall ==
    /\ pc = "play"
    /\ call' = [op |-> "is_cleared", x |-> 0, y |-> 0]
    /\ result' = IF IsCleared(field, width, height) THEN "true" ELSE "false"
    /\ pre' = field
    /\ pushes' = <<>>
    /\ UNCHANGED <<app, neighbors, width, height, mines, field, pc, spots_remaining, placed, args>>

\* the coordinates tried: every spot of the grid, and one step outside on each axis
Next ==
    \/ \E count \in 0..MaxMines : WithMinesEnter(count)
    \/ \E index_rm \in 0..(MaxSpots - 1) : WithMinesPlace(index_rm)
    \/ WithMinesReturn
    \/ \E x \in 0..width, y \in 0..height : Step(x, y)
    \/ \E x \in 0..width, y \in 0..height : AutoStep(x, y)
    \/ \E x \in 0..width, y \in 0..height : ToggleFlag(x, y)
    \/ IsClearedCall

Spec == Init /\ [][Next]_vars

(***************************************************************************)
(* neighbors_coords called by itself on a fresh field of any size up to    *)
(* MaxGridDim by MaxGridDim                                                *)
(***************************************************************************)
InitNeighbors ==
    \E w \in 0..MaxGridDim, h \in 0..MaxGridDim :
        /\ width = NewWidth(w)
        /\ height = NewHeight(h)
        /\ mines = 0
        /\ field = NewField(w, h)
        /\ pc = "new"
        /\ spots_remaining = <<>>
        /\ placed = 0
        /\ args = [width |-> w, height |-> h, mines |-> 0]
        /\ call = NoCall
        /\ result = "-"
        /\ pre = NewField(w, h)
        /\ pushes = <<>>
        /\ neighbors = <<>>
        /\ NoApp

NeighborsCoordsCall(x, y) ==
    /\ neighbors' = NeighborsCoords(width, height, x, y)
    /\ call' = [op |-> "neighbors_coords", x |-> x, y |-> y]
    /\ result' = "-"
    /\ pre' = field
    /\ UNCHANGED <<app, width, height, mines, field, pc, spots_remaining, placed, args, pushes>>

NextNeighbors == \E x \in 0..(width - 1), y \in 0..(height - 1) : NeighborsCoordsCall(x, y)

SpecNeighbors == InitNeighbors /\ [][NextNeighbors]_vars

(***************************************************************************)
(* place_mine called by itself, on any spot of a field from new, mined or  *)
(* not, as the tests of the module do                                      *)
(***************************************************************************)
InitPlaceMine ==
    /\ InitNeighbors
    /\ width * height <= MaxPlaceSpots

PlaceMineCall(x, y) ==
    /\ field' = PlaceMine(field, width, height, x, y)
    /\ call' = [op |-> "place_mine", x |-> x, y |-> y]
    /\ result' = "-"
    /\ pre' = field
    /\ UNCHANGED <<app, neighbors, width, height, mines, pc, spots_remaining, placed, args, pushes>>

NextPlaceMine == \E x \in 0..(width - 1), y \in 0..(height - 1) : PlaceMineCall(x, y)

SpecPlaceMine == InitPlaceMine /\ [][NextPlaceMine]_vars

(***************************************************************************)
(* The application, Minesweep::update: one action per message. The view is *)
(* kept by its kind: the difficulty edited in the Settings view is left    *)
(* out, Settings(Set) carrying the difficulty it applies. The games played *)
(* are the custom games within the bounds.                                 *)
(***************************************************************************)
Configs ==
    {GameConfig(c[1], c[2], c[3]) :
        c \in (1..MaxConfigWidth) \X (1..MaxConfigHeight) \X (0..MaxConfigMines)}

\* the configurations tried while the clock is followed, a width of zero among them
ClockConfigs ==
    {GameConfig(c[1], c[2], c[3]) :
        c \in (0..MaxClockWidth) \X (1..MaxConfigHeight) \X (0..MaxConfigMines)}

\* the state after Settings(Set(Custom(config))): default() with another configuration
InitGame(configs) ==
    \E config \in configs :
        \E picks \in Picks(config.width, config.height, config.mines) :
            /\ width = NewWidth(config.width)
            /\ height = NewHeight(config.height)
            /\ mines = LimitMines(config.mines, NewWidth(config.width), NewHeight(config.height))
            /\ field = WithMines(config.width, config.height, config.mines, picks)
            /\ pc = "play"
            /\ spots_remaining = <<>>
            /\ placed = 0
            /\ args = config
            /\ call = NoCall
            /\ result = "-"
            /\ pre = NewField(config.width, config.height)
            /\ pushes = <<>>
            /\ neighbors = <<>>
            /\ game_state = Ready
            /\ main_view = "Game"
            /\ elapsed_seconds = 0
            /\ remaining_flags = config.mines
            /\ game_config = config
            /\ now = 0
            /\ message = NoMessage
            /\ NoScores

\* what the handlers that do not touch the field leave alone; the games played here
\* are of a custom difficulty, whose wins game_over records no score for
FieldKept ==
    UNCHANGED <<width, height, mines, field, pc, spots_remaining, placed, args, call, result, pre,
                pushes, neighbors, scores>>

\* what the handlers that call step, auto_step or toggle_flag leave alone: the
\* application is followed through message, not through the calls made on the field
FieldOnly ==
    UNCHANGED <<width, height, mines, pc, spots_remaining, placed, args, call, result, pre,
                pushes, neighbors, scores>>

\* the view after a message that may have ended the game
ViewAfter(gs) ==
    IF gs.tag = "Stopped" THEN GameOverViews(gs.is_won, game_config, main_view) ELSE {main_view}

\* Step applied to the field whatever the game state is (not what the code does)
MsgStepAnyState(x, y) ==
    LET r == StepOp(field, width, height, x, y)
    IN /\ field' = r.field
       /\ message' = "Step"
       /\ UNCHANGED <<game_state, main_view, elapsed_seconds, remaining_flags, game_config, now>>
       /\ FieldOnly

MsgStep(x, y) ==
    LET s == CheckReadyToRunning(game_state, elapsed_seconds, now)
        r == StepOp(field, width, height, x, y)
    IN /\ elapsed_seconds' = s.elapsed_seconds
       /\ IF s.game_state.tag = "Running"
          THEN /\ field' = r.field
               /\ game_state' = AfterStep(s.game_state, r, width, height)
               /\ main_view' \in ViewAfter(AfterStep(s.game_state, r, width, height))
          ELSE /\ game_state' = s.game_state
               /\ UNCHANGED <<field, main_view>>
       /\ message' = "Step"
       /\ UNCHANGED <<remaining_flags, game_config, now>>
       /\ FieldOnly

\* AutoStep starting a Ready game as Step and Flag do (not what the code does)
MsgAutoStepStartsGame(x, y) ==
    LET s == CheckReadyToRunning(game_state, elapsed_seconds, now)
        r == AutoStepOp(field, width, height, x, y)
    IN /\ elapsed_seconds' = s.elapsed_seconds
       /\ field' = r.field
       /\ game_state' = AfterStep(s.game_state, r, width, height)
       /\ main_view' \in ViewAfter(AfterStep(s.game_state, r, width, height))
       /\ message' = "AutoStep"
       /\ UNCHANGED <<remaining_flags, game_config, now>>
       /\ FieldOnly

MsgAutoStep(x, y) ==
    LET r == AutoStepOp(field, width, height, x, y)
    IN /\ IF game_state.tag = "Running"
          THEN /\ field' = r.field
               /\ game_state' = AfterStep(game_state, r, width, height)
               /\ main_view' \in ViewAfter(AfterStep(game_state, r, width, height))
          ELSE UNCHANGED <<field, game_state, main_view>>
       /\ message' = "AutoStep"
       /\ UNCHANGED <<elapsed_seconds, remaining_flags, game_config, now>>
       /\ FieldOnly

MsgFlag(x, y) ==
    LET s == CheckReadyToRunning(game_state, elapsed_seconds, now)
        r == ToggleFlagOp(field, width, height, x, y)
        over == r.result = "Added" /\ IsCleared(r.field, width, height)
    IN /\ elapsed_seconds' = s.elapsed_seconds
       /\ IF s.game_state.tag = "Running"
          THEN /\ field' = r.field
               /\ remaining_flags' = IF r.result = "Removed" THEN remaining_flags + 1
                                     ELSE IF r.result = "Added" THEN remaining_flags - 1
                                     ELSE remaining_flags
               /\ game_state' = IF over THEN Stopped(TRUE) ELSE s.game_state
               /\ main_view' \in ViewAfter(IF over THEN Stopped(TRUE) ELSE s.game_state)
          ELSE /\ game_state' = s.game_state
               /\ UNCHANGED <<field, remaining_flags, main_view>>
       /\ message' = "Flag"
       /\ UNCHANGED <<game_config, now>>
       /\ FieldOnly

\* a new game of the given configuration, as Reset and Settings(Set) start it
\* a new game that leaves the view that was shown (not what the code does)
NewGameKeepsView(config) ==
    /\ \E picks \in Picks(config.width, config.height, config.mines) :
            field' = WithMines(config.width, config.height, config.mines, picks)
    /\ width' = NewWidth(config.width)
    /\ height' = NewHeight(config.height)
    /\ mines' = LimitMines(config.mines, NewWidth(config.width), NewHeight(config.height))
    /\ args' = config
    /\ game_state' = Ready
    /\ elapsed_seconds' = 0
    /\ remaining_flags' = config.mines
    /\ UNCHANGED <<main_view, pc, spots_remaining, placed, call, result, pre, pushes, neighbors, now,
                   scores>>

NewGame(config) ==
    /\ \E picks \in Picks(config.width, config.height, config.mines) :
            field' = WithMines(config.width, config.height, config.mines, picks)
    /\ width' = NewWidth(config.width)
    /\ height' = NewHeight(config.height)
    /\ mines' = LimitMines(config.mines, NewWidth(config.width), NewHeight(config.height))
    /\ args' = config
    /\ game_state' = Ready
    /\ main_view' = "Game"
    /\ elapsed_seconds' = 0
    /\ remaining_flags' = config.mines
    /\ UNCHANGED <<pc, spots_remaining, placed, call, result, pre, pushes, neighbors, now, scores>>

MsgReset ==
    /\ NewGame(game_config)
    /\ message' = "Reset"
    /\ UNCHANGED game_config

MsgSettingsSet(config) ==
    /\ game_config' = config
    /\ NewGame(config)
    /\ message' = "Settings(Set)"

\* Info, Settings(Show) and HighScores: the message of a view closes it when it is
\* shown, and opens it over any other view
ShowOrClose(view) ==
    /\ IF main_view = view
       THEN /\ game_state' = ResumeGame(game_state, now)
            /\ main_view' = "Game"
            /\ UNCHANGED elapsed_seconds
       ELSE /\ game_state' = PauseGame(game_state, elapsed_seconds, now).game_state
            /\ elapsed_seconds' = PauseGame(game_state, elapsed_seconds, now).elapsed_seconds
            /\ main_view' = view
    /\ FieldKept
    /\ UNCHANGED <<remaining_flags, game_config, now>>

MsgInfo ==
    /\ ShowOrClose("Info")
    /\ message' = "Info"

MsgSettingsShow ==
    /\ ShowOrClose("Settings")
    /\ message' = "Settings(Show)"

MsgHighScores ==
    /\ ShowOrClose("HighScores")
    /\ message' = "HighScores"

MsgSettingsPicked ==
    /\ main_view' = "Settings"
    /\ message' = "Settings(Picked)"
    /\ FieldKept
    /\ UNCHANGED <<game_state, elapsed_seconds, remaining_flags, game_config, now>>

MsgSettingsDiscard ==
    /\ IF main_view = "Settings"
       THEN /\ main_view' = "Game"
            /\ game_state' = ResumeGame(game_state, now)
       ELSE UNCHANGED <<main_view, game_state>>
    /\ message' = "Settings(Discard)"
    /\ FieldKept
    /\ UNCHANGED <<elapsed_seconds, remaining_flags, game_config, now>>

\* ConfigWidth, ConfigHeight and ConfigMines edit the difficulty of the Settings view only
MsgSettingsConfig ==
    /\ message' = "Settings(Config)"
    /\ FieldKept
    /\ UNCHANGED <<main_view, game_state, elapsed_seconds, remaining_flags, game_config, now>>

\* the tick carries the instant at which it is handled
\* a Tick that counts the time of a game in any state (not what the code does)
MsgTickAnyState ==
    /\ elapsed_seconds' = elapsed_seconds + (now - game_state.instant)
    /\ game_state' = [game_state EXCEPT !.instant = now]
    /\ message' = "Tick"
    /\ FieldKept
    /\ UNCHANGED <<main_view, remaining_flags, game_config, now>>

MsgTick ==
    /\ IF game_state.tag = "Running"
       THEN /\ elapsed_seconds' = elapsed_seconds + (now - game_state.instant)
            /\ game_state' = Running(now)
       ELSE UNCHANGED <<elapsed_seconds, game_state>>
    /\ message' = "Tick"
    /\ FieldKept
    /\ UNCHANGED <<main_view, remaining_flags, game_config, now>>

\* HighScore(NameChanged) edits the name of a score only
MsgHighScoreNameChanged ==
    /\ message' = "HighScore(NameChanged)"
    /\ FieldKept
    /\ UNCHANGED <<main_view, game_state, elapsed_seconds, remaining_flags, game_config, now>>

MsgHighScoreRecordName ==
    /\ main_view' = IF main_view = "EnterHighScore" THEN "HighScores" ELSE main_view
    /\ message' = "HighScore(RecordName)"
    /\ FieldKept
    /\ UNCHANGED <<game_state, elapsed_seconds, remaining_flags, game_config, now>>

MsgHighScoreDiscard ==
    /\ main_view' = IF main_view = "EnterHighScore" THEN "Game" ELSE main_view
    /\ message' = "HighScore(Discard)"
    /\ FieldKept
    /\ UNCHANGED <<game_state, elapsed_seconds, remaining_flags, game_config, now>>

\* Persistance(SavedConfigs), and Persistance(LoadedConfigs) of no file or of a custom game
MsgPersistance ==
    /\ message' = "Persistance"
    /\ FieldKept
    /\ UNCHANGED <<main_view, game_state, elapsed_seconds, remaining_flags, game_config, now>>

\* the clock moves on between two messages
TimePasses ==
    /\ now < MaxTime
    /\ now' = now + 1
    /\ UNCHANGED <<width, height, mines, field, pc, spots_remaining, placed, args, call, result,
                   pre, pushes, neighbors>>
    /\ UNCHANGED <<game_state, main_view, elapsed_seconds, remaining_flags, game_config, message,
                   scores>>

\* Minesweep::subscription: the tick subscription is on
TickSubscribed == game_state.tag = "Running"

\* the messages update handles, the coordinates being those of the spots of the canvas
Messages(configs) ==
    \/ \E x \in 0..(width - 1), y \in 0..(height - 1) : MsgStep(x, y)
    \/ \E x \in 0..(width - 1), y \in 0..(height - 1) : MsgAutoStep(x, y)
    \/ \E x \in 0..(width - 1), y \in 0..(height - 1) : MsgFlag(x, y)
    \/ MsgReset
    \/ \E config \in configs : MsgSettingsSet(config)
    \/ MsgInfo
    \/ MsgSettingsShow
    \/ MsgHighScores
    \/ MsgSettingsPicked
    \/ MsgSettingsDiscard
    \/ MsgSettingsConfig
    \/ MsgTick
    \/ MsgHighScoreNameChanged
    \/ MsgHighScoreRecordName
    \/ MsgHighScoreDiscard
    \/ MsgPersistance

(***************************************************************************)
(* The application with its clock standing still: no handler branches on  *)
(* the clock, which only feeds elapsed_seconds                             *)
(***************************************************************************)
InitApp == InitGame(Configs)

NextApp == Messages(Configs)

SpecApp == InitApp /\ [][NextApp]_vars

(***************************************************************************)
(* The application with its clock moving, on the smaller games             *)
(***************************************************************************)
InitAppClock == InitGame(ClockConfigs)

NextAppClock ==
    \/ Messages(ClockConfigs)
    \/ TimePasses

SpecAppClock == InitAppClock /\ [][NextAppClock]_vars

(***************************************************************************)
(* The high scores by themselves: the scores read from the file come first, *)
(* then games are won, and the scores entered are recorded or discarded     *)
(***************************************************************************)
RECURSIVE ListsUpTo(_)
\* the lists of at most n scores
ListsUpTo(n) ==
    IF n = 0 THEN {<<>>}
    ELSE LET shorter == ListsUpTo(n - 1)
         IN shorter \cup {Append(list, seconds) : list \in shorter, seconds \in 0..MaxSeconds}

\* the high scores a file can hold: for each level no list, or a list in any order
LoadedFiles == [Levels -> {Absent} \cup {Present(list) : list \in ListsUpTo(MaxLoaded)}]

\* a field that no high score depends on
InitHighScores ==
    /\ width = 1
    /\ height = 1
    /\ mines = 0
    /\ field = NewField(1, 1)
    /\ pc = "play"
    /\ spots_remaining = <<>>
    /\ placed = 0
    /\ args = [width |-> 1, height |-> 1, mines |-> 0]
    /\ call = NoCall
    /\ result = "-"
    /\ pre = NewField(1, 1)
    /\ pushes = <<>>
    /\ neighbors = <<>>
    /\ NoApp

ScoresOnly ==
    UNCHANGED <<width, height, mines, field, pc, spots_remaining, placed, args, call, result, pre,
                pushes, neighbors, game_state, elapsed_seconds, remaining_flags, game_config, now,
                message>>

\* Persistance(LoadedConfigs(Some(game_p))), the first message the application handles
LoadedConfigs(loaded) ==
    /\ hs_call = NoScoreCall
    /\ high_scores' = Sanitized(loaded)
    /\ hs_call' = [NoScoreCall EXCEPT !.op = "load_persistence"]
    /\ UNCHANGED <<main_view, location, hs_result>>
    /\ ScoresOnly

\* game_over(true) of a game of a standard level won in that many seconds
GameOverWon(level, seconds) ==
    LET r == InsertHighScore(high_scores, level, seconds)
    IN /\ high_scores' = r.high_scores
       /\ hs_result' = r.index
       /\ hs_call' = [op |-> "insert_high_score", level |-> level, seconds |-> seconds]
       /\ IF r.index[1] = "Some"
          THEN /\ main_view' = "EnterHighScore"
               /\ location' = [difficulty_level |-> level, index |-> r.index[2]]
          ELSE UNCHANGED <<main_view, location>>
       /\ ScoresOnly

\* HighScore(RecordName)
RecordName ==
    /\ main_view' = IF main_view = "EnterHighScore" THEN "HighScores" ELSE main_view
    /\ hs_call' = [NoScoreCall EXCEPT !.op = "RecordName"]
    /\ UNCHANGED <<high_scores, location, hs_result>>
    /\ ScoresOnly

\* HighScore(Discard)
DiscardHighScore ==
    /\ IF main_view = "EnterHighScore"
       THEN LET entry == high_scores[location.difficulty_level]
            IN /\ high_scores' =
                    IF entry.present /\ location.index < Len(entry.scores)
                    THEN [high_scores EXCEPT ![location.difficulty_level] =
                              Present(VecRemove(entry.scores, location.index))]
                    ELSE high_scores
               /\ main_view' = "Game"
       ELSE UNCHANGED <<high_scores, main_view>>
    /\ hs_call' = [NoScoreCall EXCEPT !.op = "Discard"]
    /\ UNCHANGED <<location, hs_result>>
    /\ ScoresOnly

\* initialize reads the file once, before any other message is handled
FilesToLoad == IF hs_call = NoScoreCall THEN LoadedFiles ELSE {}

NextHighScores ==
    \/ \E loaded \in FilesToLoad : LoadedConfigs(loaded)
    \/ \E level \in Levels, seconds \in 0..MaxSeconds : GameOverWon(level, seconds)
    \/ RecordName
    \/ DiscardHighScore

SpecHighScores == InitHighScores /\ [][NextHighScores]_vars

(***************************************************************************)
(* Vocabulary of the properties, stated on the grid itself and not through *)
(* neighbors_coords                                                        *)
(***************************************************************************)
Cells == {c \in (0..(width - 1)) \X (0..(height - 1)) : TRUE}

Abs(n) == IF n < 0 THEN -n ELSE n

\* c and d are distinct and differ by at most 1 on each axis
Adjacent(c, d) == c # d /\ Abs(c[1] - d[1]) <= 1 /\ Abs(c[2] - d[2]) <= 1

KindAt(f, c) == f[c[1]][c[2]].kind

StateAt(f, c) == f[c[1]][c[2]].state

Target == <<call.x, call.y>>

TargetInBounds == call.x < width /\ call.y < height

Min(a, b) == IF a <= b THEN a ELSE b

MineCells(f) == {c \in Cells : IsMine(KindAt(f, c))}

\* every spot other than the target is as it was when the operation was called
OthersUnchanged == \A c \in Cells : c # Target => field[c[1]][c[2]] = pre[c[1]][c[2]]

\* every spot has the kind it had when the operation was called
KindsUnchanged == \A c \in Cells : KindAt(field, c) = KindAt(pre, c)

RECURSIVE ReachThrough(_, _)
\* the cells reached from the cells of R by paths whose cells, the last one excepted, lie in Z
ReachThrough(R, Z) ==
    LET N == R \cup {d \in Cells : \E c \in R \cap Z : Adjacent(c, d)}
    IN IF N = R THEN R ELSE ReachThrough(N, Z)

\* step was called on an in-bounds spot of kind Empty(0) and returned Phew
SteppedOnZero ==
    /\ call.op = "step"
    /\ TargetInBounds
    /\ KindAt(pre, Target) = Empty(0)
    /\ result = "Phew"

(***************************************************************************)
(* C1, as stated: after step(x, y) returned Phew on an Empty(0) spot, every *)
(* empty spot reached from (x, y) by a path of adjacent spots whose cells   *)
(* before the last are unflagged Empty(0) spots is Revealed, unless it is   *)
(* Flagged.                                                                 *)
(***************************************************************************)
C1_FloodMaximalAsStated ==
    SteppedOnZero =>
        LET Z == {Target} \cup {c \in Cells : KindAt(field, c) = Empty(0)
                                              /\ StateAt(field, c) # "Flagged"}
        IN \A c \in ReachThrough({Target}, Z) :
               (IsEmpty(KindAt(field, c)) /\ StateAt(field, c) # "Flagged")
                   => StateAt(field, c) = "Revealed"

(***************************************************************************)
(* C1, amended: after step(x, y) returned Phew on an Empty(0) spot, every   *)
(* empty spot reached from (x, y) by a path of adjacent spots whose cells   *)
(* before the last, (x, y) itself excepted, are Empty(0) spots that were    *)
(* Hidden when step was called is Revealed, unless it is Flagged.           *)
(***************************************************************************)
C1_FloodMaximal ==
    SteppedOnZero =>
        LET Z == {Target} \cup {c \in Cells : KindAt(pre, c) = Empty(0)
                                              /\ StateAt(pre, c) = "Hidden"}
        IN \A c \in ReachThrough({Target}, Z) :
               (IsEmpty(KindAt(field, c)) /\ StateAt(field, c) # "Flagged")
                   => StateAt(field, c) = "Revealed"

\* a flood reveal that went beyond the neighbours of the stepped spot
C1_Witness ==
    /\ SteppedOnZero
    /\ \E c \in Cells : /\ c # Target
                        /\ ~Adjacent(c, Target)
                        /\ StateAt(pre, c) = "Hidden"
                        /\ StateAt(field, c) = "Revealed"

(***************************************************************************)
(* C2: step(x, y) on an empty spot leaves the state of every other spot     *)
(* that is a mine, that is Flagged, that is already Revealed, or that no    *)
(* chain of adjacent Empty(0) spots starting at (x, y) leads to.            *)
(***************************************************************************)
C2_FloodFrame ==
    (call.op = "step" /\ TargetInBounds /\ IsEmpty(KindAt(pre, Target))) =>
        LET Z == {c \in Cells : KindAt(pre, c) = Empty(0)}
            reach == ReachThrough({Target}, Z)
        IN \A c \in Cells :
               (/\ c # Target
                /\ \/ IsMine(KindAt(pre, c))
                   \/ StateAt(pre, c) = "Flagged"
                   \/ StateAt(pre, c) = "Revealed"
                   \/ c \notin reach)
               => StateAt(field, c) = StateAt(pre, c)

\* a flood reveal that revealed a spot next to a hidden mine, and left the mine hidden
C2_Witness ==
    /\ call.op = "step"
    /\ TargetInBounds
    /\ KindAt(pre, Target) = Empty(0)
    /\ \E c, m \in Cells : /\ c # Target
                           /\ StateAt(pre, c) = "Hidden"
                           /\ StateAt(field, c) = "Revealed"
                           /\ Adjacent(c, m)
                           /\ IsMine(KindAt(field, m))
                           /\ StateAt(field, m) = "Hidden"

(***************************************************************************)
(* C3: in every state, during mine placement and afterwards, each spot of   *)
(* kind Empty(n) has n equal to the number of its in-bounds neighbours of   *)
(* kind Mine, hence 0 <= n <= 8.                                            *)
(***************************************************************************)
C3_NeighborCounts ==
    \A c \in Cells :
        IsEmpty(KindAt(field, c)) =>
            /\ Count(KindAt(field, c)) =
                   Cardinality({d \in Cells : Adjacent(c, d) /\ IsMine(KindAt(field, d))})
            /\ Count(KindAt(field, c)) \in 0..8

\* a spot between two mines, after the player has acted on the field
C3_Witness ==
    /\ pc = "play"
    /\ call.op \in {"step", "auto_step", "toggle_flag"}
    /\ field # pre
    /\ \E c \in Cells : KindAt(field, c) = Empty(2)

(***************************************************************************)
(* C4: new(width, height).with_mines(count) yields exactly                  *)
(* min(count, width * height) spots of kind Mine, each placed at a distinct *)
(* in-bounds coordinate, and mines() is that number, whatever the random    *)
(* choices.                                                                 *)
(***************************************************************************)
C4_WithMinesCount ==
    /\ pc \in {"with_mines", "play"} => mines = Min(args.mines, width * height)
    /\ pc = "with_mines" => Cardinality(MineCells(field)) = placed
    /\ pc = "play" => Cardinality(MineCells(field)) = Min(args.mines, width * height)
    /\ call.op = "place_mine" =>
           /\ TargetInBounds
           /\ IsEmpty(KindAt(pre, Target))
           /\ IsMine(KindAt(field, Target))

\* a request for more mines than there are spots, served with a full field
C4_Witness ==
    /\ pc = "play"
    /\ args.mines > width * height
    /\ MineCells(field) = Cells
    /\ mines = width * height

(***************************************************************************)
(* C5: step(x, y) on a spot of kind Mine sets it to Exploded and returns    *)
(* Boom whatever its state was, and changes no other spot.                  *)
(***************************************************************************)
C5_StepOnMine ==
    (call.op = "step" /\ TargetInBounds /\ IsMine(KindAt(pre, Target))) =>
        /\ result = "Boom"
        /\ StateAt(field, Target) = "Exploded"
        /\ OthersUnchanged
        /\ KindsUnchanged

\* a flagged mine that was stepped on
C5_Witness ==
    /\ call.op = "step"
    /\ TargetInBounds
    /\ IsMine(KindAt(pre, Target))
    /\ StateAt(pre, Target) = "Flagged"
    /\ result = "Boom"
    /\ \E c \in Cells : c # Target /\ StateAt(pre, c) = "Hidden"

(***************************************************************************)
(* C6: step(x, y) on a spot of kind Empty(n) with n > 0 sets it to          *)
(* Revealed, returns Phew, and leaves every other spot as it was.           *)
(***************************************************************************)
C6_StepOnCounted ==
    (/\ call.op = "step"
     /\ TargetInBounds
     /\ IsEmpty(KindAt(pre, Target))
     /\ Count(KindAt(pre, Target)) > 0) =>
        /\ result = "Phew"
        /\ StateAt(field, Target) = "Revealed"
        /\ OthersUnchanged
        /\ KindsUnchanged

\* a counted spot stepped on while an empty neighbour of it is hidden
C6_Witness ==
    /\ call.op = "step"
    /\ TargetInBounds
    /\ IsEmpty(KindAt(pre, Target))
    /\ Count(KindAt(pre, Target)) > 0
    /\ StateAt(pre, Target) = "Hidden"
    /\ \E c \in Cells : /\ Adjacent(c, Target)
                        /\ IsEmpty(KindAt(pre, c))
                        /\ StateAt(pre, c) = "Hidden"

(***************************************************************************)
(* C7: step(x, y) with x >= width or y >= height returns Invalid and leaves *)
(* the whole field as it was.                                               *)
(***************************************************************************)
C7_StepOutOfBounds ==
    (call.op = "step" /\ ~TargetInBounds) => (result = "Invalid" /\ field = pre)

\* a step one column too far, on a field whose last column holds a hidden spot
C7_Witness ==
    /\ call.op = "step"
    /\ call.x = width
    /\ call.y < height
    /\ result = "Invalid"
    /\ StateAt(field, <<width - 1, call.y>>) = "Hidden"

(***************************************************************************)
(* C8: toggle_flag(x, y) turns Hidden into Flagged and returns Added, turns *)
(* Flagged into Hidden and returns Removed, and returns None for a Revealed *)
(* or Exploded spot or out-of-bounds coordinates; no other spot changes,    *)
(* and in the None case nothing changes.                                    *)
(***************************************************************************)
C8_ToggleFlag ==
    call.op = "toggle_flag" =>
        IF TargetInBounds
        THEN /\ OthersUnchanged
             /\ KindsUnchanged
             /\ StateAt(pre, Target) = "Hidden" =>
                    (result = "Added" /\ StateAt(field, Target) = "Flagged")
             /\ StateAt(pre, Target) = "Flagged" =>
                    (result = "Removed" /\ StateAt(field, Target) = "Hidden")
             /\ StateAt(pre, Target) \in {"Revealed", "Exploded"} =>
                    (result = "None" /\ field = pre)
        ELSE result = "None" /\ field = pre

\* toggle_flag refused on a revealed spot while another spot carries a flag
C8_Witness ==
    /\ call.op = "toggle_flag"
    /\ TargetInBounds
    /\ StateAt(pre, Target) = "Revealed"
    /\ result = "None"
    /\ \E c \in Cells : StateAt(field, c) = "Flagged"

(***************************************************************************)
(* C9: is_cleared() is true exactly when every spot of kind Mine is Flagged *)
(* and every spot of kind Empty is Revealed; it is false when all empty     *)
(* spots are revealed but some mine is not flagged.                         *)
(***************************************************************************)
AllMinesFlagged == \A c \in Cells : IsMine(KindAt(field, c)) => StateAt(field, c) = "Flagged"

AllEmptyRevealed == \A c \in Cells : IsEmpty(KindAt(field, c)) => StateAt(field, c) = "Revealed"

C9_IsCleared ==
    /\ IsCleared(field, width, height) <=> (AllMinesFlagged /\ AllEmptyRevealed)
    /\ call.op = "is_cleared" => (result = "true" <=> (AllMinesFlagged /\ AllEmptyRevealed))
    /\ (call.op = "is_cleared" /\ AllEmptyRevealed /\ ~AllMinesFlagged) => result = "false"

\* is_cleared answered false on a field whose empty spots are all revealed
C9_Witness ==
    /\ call.op = "is_cleared"
    /\ result = "false"
    /\ AllEmptyRevealed
    /\ \E c \in Cells : IsEmpty(KindAt(field, c))
    /\ \E c \in Cells : IsMine(KindAt(field, c)) /\ StateAt(field, c) = "Hidden"

(***************************************************************************)
(* C10: auto_step(x, y) on a spot of kind Empty that is not Revealed, or    *)
(* whose number of Flagged neighbours differs from its neighbour-mine       *)
(* count, returns Phew and changes no spot.                                 *)
(***************************************************************************)
FlaggedAround(f, c) == Cardinality({d \in Cells : Adjacent(c, d) /\ StateAt(f, d) = "Flagged"})

C10_AutoStepNoOp ==
    (/\ call.op = "auto_step"
     /\ TargetInBounds
     /\ IsEmpty(KindAt(pre, Target))
     /\ \/ StateAt(pre, Target) # "Revealed"
        \/ FlaggedAround(pre, Target) # Count(KindAt(pre, Target))) =>
        (result = "Phew" /\ field = pre)

\* auto_step on a revealed spot with too few flags around it and hidden neighbours
C10_Witness ==
    /\ call.op = "auto_step"
    /\ TargetInBounds
    /\ IsEmpty(KindAt(pre, Target))
    /\ StateAt(pre, Target) = "Revealed"
    /\ FlaggedAround(pre, Target) < Count(KindAt(pre, Target))
    /\ \E c \in Cells : Adjacent(c, Target) /\ StateAt(pre, c) = "Hidden"
    /\ result = "Phew"

(***************************************************************************)
(* Vocabulary of the auto_step properties                                  *)
(***************************************************************************)
\* auto_step was called on a Revealed Empty spot with as many flags around it as mines
AutoSteppedSatisfied ==
    /\ call.op = "auto_step"
    /\ TargetInBounds
    /\ IsEmpty(KindAt(pre, Target))
    /\ StateAt(pre, Target) = "Revealed"
    /\ FlaggedAround(pre, Target) = Count(KindAt(pre, Target))

(***************************************************************************)
(* C11, as stated: auto_step(x, y) on a satisfied Revealed Empty spot, when *)
(* it returns Phew, leaves every neighbour of (x, y) Revealed or Flagged:   *)
(* every neighbour that was Hidden is Revealed, every neighbour that was    *)
(* Flagged is still Flagged.                                                *)
(***************************************************************************)
C11_AutoStepRevealsAsStated ==
    (AutoSteppedSatisfied /\ result = "Phew") =>
        \A c \in Cells : Adjacent(c, Target) =>
            /\ StateAt(field, c) \in {"Revealed", "Flagged"}
            /\ StateAt(pre, c) = "Hidden" => StateAt(field, c) = "Revealed"
            /\ StateAt(pre, c) = "Flagged" => StateAt(field, c) = "Flagged"

(***************************************************************************)
(* C11, amended: auto_step(x, y) on a satisfied Revealed Empty spot, when   *)
(* it returns Phew, leaves every neighbour of (x, y) Revealed or Flagged,   *)
(* or Exploded if it was Exploded before the call: every neighbour that was *)
(* Hidden is Revealed, every neighbour that was Flagged is still Flagged.   *)
(***************************************************************************)
C11_AutoStepReveals ==
    (AutoSteppedSatisfied /\ result = "Phew") =>
        \A c \in Cells : Adjacent(c, Target) =>
            /\ \/ StateAt(field, c) \in {"Revealed", "Flagged"}
               \/ StateAt(pre, c) = "Exploded" /\ StateAt(field, c) = "Exploded"
            /\ StateAt(pre, c) = "Hidden" => StateAt(field, c) = "Revealed"
            /\ StateAt(pre, c) = "Flagged" => StateAt(field, c) = "Flagged"

\* a chord that revealed a hidden neighbour and kept a flag on a mine
C11_Witness ==
    /\ AutoSteppedSatisfied
    /\ result = "Phew"
    /\ \E c \in Cells : /\ Adjacent(c, Target)
                        /\ StateAt(pre, c) = "Hidden"
                        /\ StateAt(field, c) = "Revealed"
    /\ \E c \in Cells : /\ Adjacent(c, Target)
                        /\ IsMine(KindAt(field, c))
                        /\ StateAt(field, c) = "Flagged"

(***************************************************************************)
(* C12: when auto_step(x, y) on a satisfied Revealed spot meets a Hidden    *)
(* neighbour that is a mine, it returns Boom at once: that mine, the first  *)
(* Hidden mine in the iteration order (x ascending, then y ascending), is   *)
(* the only spot the call explodes, and no later neighbour is stepped on:   *)
(* a later neighbour keeps its state, unless it is an empty spot that a     *)
(* flood reveal of an earlier neighbour reached.                            *)
(***************************************************************************)
\* c comes before d in the iteration order of the neighbours
Before(c, d) == c[1] < d[1] \/ (c[1] = d[1] /\ c[2] < d[2])

HiddenMinesAround(f, c) ==
    {d \in Cells : Adjacent(c, d) /\ IsMine(KindAt(f, d)) /\ StateAt(f, d) = "Hidden"}

C12_AutoStepBoom ==
    (AutoSteppedSatisfied /\ HiddenMinesAround(pre, Target) # {}) =>
        LET hm == HiddenMinesAround(pre, Target)
            m == CHOOSE d \in hm : \A e \in hm : e = d \/ Before(d, e)
        IN /\ result = "Boom"
           /\ {c \in Cells : StateAt(field, c) = "Exploded" /\ StateAt(pre, c) # "Exploded"} = {m}
           /\ \A c \in Cells :
                  (Adjacent(c, Target) /\ Before(m, c)) =>
                      \/ StateAt(field, c) = StateAt(pre, c)
                      \/ /\ IsEmpty(KindAt(pre, c))
                         /\ StateAt(pre, c) = "Hidden"
                         /\ StateAt(field, c) = "Revealed"
                         /\ \E z \in Cells : /\ Adjacent(z, c)
                                             /\ KindAt(pre, z) = Empty(0)
                                             /\ StateAt(field, z) = "Revealed"

\* a chord that exploded a mine and left a hidden neighbour after it in the order
C12_Witness ==
    /\ AutoSteppedSatisfied
    /\ result = "Boom"
    /\ \E m, c \in Cells : /\ Adjacent(m, Target)
                           /\ Adjacent(c, Target)
                           /\ StateAt(pre, m) = "Hidden"
                           /\ StateAt(field, m) = "Exploded"
                           /\ Before(m, c)
                           /\ StateAt(pre, c) = "Hidden"
                           /\ StateAt(field, c) = "Hidden"

(***************************************************************************)
(* C13: auto_step(x, y) returns Invalid and changes no spot when (x, y) is  *)
(* out of bounds or the spot at (x, y) is of kind Mine, whatever its state. *)
(***************************************************************************)
C13_AutoStepInvalid ==
    (call.op = "auto_step" /\ (~TargetInBounds \/ IsMine(KindAt(pre, Target)))) =>
        (result = "Invalid" /\ field = pre)

\* auto_step refused on a flagged mine that has a hidden neighbour
C13_Witness ==
    /\ call.op = "auto_step"
    /\ TargetInBounds
    /\ IsMine(KindAt(pre, Target))
    /\ StateAt(pre, Target) = "Flagged"
    /\ result = "Invalid"
    /\ \E c \in Cells : Adjacent(c, Target) /\ StateAt(field, c) = "Hidden"

(***************************************************************************)
(* The changes of state of the spots over one call of step, auto_step or    *)
(* toggle_flag                                                              *)
(***************************************************************************)
PlayerCalled == call.op \in {"step", "auto_step", "toggle_flag"}

\* the pairs <<state before, state after>> of the spots the last call changed
Changes == {<<StateAt(pre, c), StateAt(field, c)>> : c \in {d \in Cells : StateAt(pre, d) # StateAt(field, d)}}

(***************************************************************************)
(* C14, as stated: the only changes of state of a spot are Hidden to        *)
(* Flagged and Flagged to Hidden (toggle_flag), Hidden to Revealed (step on *)
(* a non-mine) and Hidden to Exploded (step on a mine); a spot enters       *)
(* Revealed or Exploded only from Hidden.                                   *)
(***************************************************************************)
C14_TransitionsAsStated ==
    PlayerCalled =>
        \A c \in Cells :
            \/ StateAt(field, c) = StateAt(pre, c)
            \/ /\ <<StateAt(pre, c), StateAt(field, c)>> \in
                      {<<"Hidden", "Flagged">>, <<"Flagged", "Hidden">>}
               /\ call.op = "toggle_flag"
            \/ /\ <<StateAt(pre, c), StateAt(field, c)>> = <<"Hidden", "Revealed">>
               /\ call.op \in {"step", "auto_step"}
               /\ IsEmpty(KindAt(pre, c))
            \/ /\ <<StateAt(pre, c), StateAt(field, c)>> = <<"Hidden", "Exploded">>
               /\ call.op \in {"step", "auto_step"}
               /\ IsMine(KindAt(pre, c))

(***************************************************************************)
(* C14, amended: the only changes of state of a spot are Hidden to Flagged  *)
(* and Flagged to Hidden (toggle_flag), Hidden to Revealed (step on or      *)
(* flood over a non-mine), Hidden to Exploded (step on a mine), and, for    *)
(* the spot step is called on, Flagged to Revealed (non-mine) and Flagged   *)
(* to Exploded (mine); a spot enters Revealed or Exploded only from Hidden  *)
(* or Flagged.                                                              *)
(***************************************************************************)
C14_Transitions ==
    PlayerCalled =>
        \A c \in Cells :
            \/ StateAt(field, c) = StateAt(pre, c)
            \/ /\ <<StateAt(pre, c), StateAt(field, c)>> \in
                      {<<"Hidden", "Flagged">>, <<"Flagged", "Hidden">>}
               /\ call.op = "toggle_flag"
            \/ /\ <<StateAt(pre, c), StateAt(field, c)>> = <<"Hidden", "Revealed">>
               /\ call.op \in {"step", "auto_step"}
               /\ IsEmpty(KindAt(pre, c))
            \/ /\ <<StateAt(pre, c), StateAt(field, c)>> = <<"Hidden", "Exploded">>
               /\ call.op \in {"step", "auto_step"}
               /\ IsMine(KindAt(pre, c))
            \/ /\ <<StateAt(pre, c), StateAt(field, c)>> = <<"Flagged", "Revealed">>
               /\ call.op = "step"
               /\ c = Target
               /\ IsEmpty(KindAt(pre, c))
            \/ /\ <<StateAt(pre, c), StateAt(field, c)>> = <<"Flagged", "Exploded">>
               /\ call.op = "step"
               /\ c = Target
               /\ IsMine(KindAt(pre, c))

\* a step on a flagged empty spot, which revealed it and flooded on
C14_Witness ==
    /\ call.op = "step"
    /\ TargetInBounds
    /\ <<"Flagged", "Revealed">> \in Changes
    /\ <<"Hidden", "Revealed">> \in Changes

(***************************************************************************)
(* C15: once a spot is Revealed or Exploded, no call of step, auto_step or  *)
(* toggle_flag on any coordinates changes its state.                        *)
(***************************************************************************)
C15_RevealedIsFinal ==
    PlayerCalled =>
        \A c \in Cells :
            StateAt(pre, c) \in {"Revealed", "Exploded"} => StateAt(field, c) = StateAt(pre, c)

\* a call aimed at an exploded mine while a revealed spot lies next to it
C15_Witness ==
    /\ PlayerCalled
    /\ TargetInBounds
    /\ StateAt(pre, Target) = "Exploded"
    /\ StateAt(field, Target) = "Exploded"
    /\ \E c \in Cells : Adjacent(c, Target) /\ StateAt(pre, c) = "Revealed"

(***************************************************************************)
(* C16: after new(w, h), spot(x, y) is Some exactly for x < width() and     *)
(* y < height(), every such spot is Empty(0) and Hidden, and mines() is 0.  *)
(***************************************************************************)
C16_NewField ==
    pc = "new" =>
        /\ mines = 0
        /\ DOMAIN field = 0..(width - 1)
        /\ \A x \in DOMAIN field : DOMAIN field[x] = 0..(height - 1)
        /\ \A x \in 0..(width + 1), y \in 0..(height + 1) :
               IF x < width /\ y < height
               THEN SpotAt(field, width, height, x, y) =
                        <<"Some", [kind |-> Empty(0), state |-> "Hidden"]>>
               ELSE SpotAt(field, width, height, x, y) = <<"None">>

\* a fresh field that is wider than high
C16_Witness ==
    /\ pc = "new"
    /\ width = 3
    /\ height = 1
    /\ SpotAt(field, width, height, 2, 0)[1] = "Some"
    /\ SpotAt(field, width, height, 0, 1)[1] = "None"

(***************************************************************************)
(* C17: new(width, height) raises a width or height of 0 to 1 and keeps any *)
(* other value, so width() >= 1, height() >= 1 and the grid holds exactly   *)
(* width() * height() spots.                                                *)
(***************************************************************************)
C17_NewClamps ==
    /\ width = (IF args.width = 0 THEN 1 ELSE args.width)
    /\ height = (IF args.height = 0 THEN 1 ELSE args.height)
    /\ width >= 1
    /\ height >= 1
    /\ Cardinality({c \in (0..MaxSpots) \X (0..MaxSpots) :
                       c[1] \in DOMAIN field /\ c[2] \in DOMAIN field[c[1]]}) = width * height

\* a field asked for with width 0 and height 2
C17_Witness ==
    /\ pc = "new"
    /\ args.width = 0
    /\ args.height = 2
    /\ width = 1
    /\ height = 2

(***************************************************************************)
(* C18: step, auto_step and toggle_flag never change the kind of a spot:    *)
(* the mines and every Empty(n) count stay as mine placement left them.     *)
(***************************************************************************)
C18_KindsKept == PlayerCalled => KindsUnchanged

\* a step that revealed a counted spot next to a mine
C18_Witness ==
    /\ call.op = "step"
    /\ TargetInBounds
    /\ IsEmpty(KindAt(field, Target))
    /\ Count(KindAt(field, Target)) > 0
    /\ StateAt(pre, Target) = "Hidden"
    /\ StateAt(field, Target) = "Revealed"

(***************************************************************************)
(* C19: for every in-bounds (x, y), neighbors_coords(x, y) yields exactly   *)
(* the spots (i, j) with i < width, j < height, |i - x| <= 1, |j - y| <= 1  *)
(* other than (x, y), each once: fewer than 8 at the edges and corners,     *)
(* none on a 1x1 field.                                                     *)
(***************************************************************************)
C19_Neighbors ==
    call.op = "neighbors_coords" =>
        LET expected == {c \in (0..(width - 1)) \X (0..(height - 1)) :
                            /\ Abs(c[1] - call.x) <= 1
                            /\ Abs(c[2] - call.y) <= 1
                            /\ c # <<call.x, call.y>>}
            onEdge == call.x = 0 \/ call.y = 0 \/ call.x = width - 1 \/ call.y = height - 1
        IN /\ {neighbors[k] : k \in 1..Len(neighbors)} = expected
           /\ \A k, l \in 1..Len(neighbors) : neighbors[k] = neighbors[l] => k = l
           /\ Len(neighbors) <= 8
           /\ onEdge => Len(neighbors) < 8
           /\ (width = 1 /\ height = 1) => neighbors = <<>>

\* a spot inside the grid, with its eight neighbours
C19_Witness ==
    /\ call.op = "neighbors_coords"
    /\ call.x > 0
    /\ call.y > 0
    /\ call.x < width - 1
    /\ call.y < height - 1
    /\ Len(neighbors) = 8

(***************************************************************************)
(* C20: the flood reveal of step terminates: a spot is pushed on the        *)
(* worklist only when it changes from Hidden to Revealed, so no spot is     *)
(* pushed more than once in a call and at most width*height spots are       *)
(* pushed. The worklist starts as the stepped-on spot alone; the call       *)
(* returns once the worklist is empty.                                      *)
(***************************************************************************)
C20_FloodPushes ==
    call.op = "step" =>
        /\ \A k, l \in 1..Len(pushes) : pushes[k] = pushes[l] => k = l
        /\ Len(pushes) <= width * height
        /\ pushes # <<>> => pushes[1] = <<call.x, call.y>>
        /\ \A k \in 1..Len(pushes) :
                /\ InBounds(width, height, pushes[k][1], pushes[k][2])
                /\ field[pushes[k][1]][pushes[k][2]].state = "Revealed"
                /\ field[pushes[k][1]][pushes[k][2]].kind = Empty(0)
                /\ k > 1 => pre[pushes[k][1]][pushes[k][2]].state = "Hidden"

\* a flood over a whole mine-free field of at least three spots: every spot is pushed
C20_Witness ==
    /\ call.op = "step"
    /\ width * height >= 3
    /\ Len(pushes) = width * height

\* the spot of the grid an index of spots_remaining stands for
SpotOfIndex(index) == <<IndexX(index, width), IndexY(index, width)>>

(***************************************************************************)
(* C21: the placement loop of with_mines runs exactly                       *)
(* min(count, width*height) times whatever the random choices are, a        *)
(* completely mined field included: each iteration removes one index from   *)
(* the list of the spots not mined yet, the list holds exactly those spots, *)
(* each once, so a spot already mined is never picked, the random range is  *)
(* never empty and nothing is retried.                                      *)
(***************************************************************************)
C21_PlacementLoop ==
    pc = "with_mines" =>
        /\ placed <= mines
        /\ mines = Min(args.mines, width * height)
        /\ Len(spots_remaining) = width * height - placed
        /\ \A k, l \in 1..Len(spots_remaining) :
                spots_remaining[k] = spots_remaining[l] => k = l
        /\ {SpotOfIndex(spots_remaining[k]) : k \in 1..Len(spots_remaining)}
                = Cells \ MineCells(field)
        /\ placed < mines => Len(spots_remaining) > 0
        /\ call.op = "place_mine" => Cardinality(MineCells(field)) = Cardinality(MineCells(pre)) + 1

\* the last iteration on a field that ends completely mined
C21_Witness ==
    /\ pc = "with_mines"
    /\ call.op = "place_mine"
    /\ placed = mines
    /\ mines = width * height
    /\ mines >= 2
    /\ spots_remaining = <<>>

(***************************************************************************)
(* C22: place_mine(x, y) on a spot of kind Empty makes it a Mine and adds   *)
(* exactly 1 to the count of every neighbour of kind Empty; the kind of     *)
(* every other spot and the state of every spot stay as they were.          *)
(* place_mine on a spot that already is a Mine changes nothing.             *)
(***************************************************************************)
C22_PlaceMine ==
    call.op = "place_mine" =>
        /\ TargetInBounds
        /\ \A c \in Cells : StateAt(field, c) = StateAt(pre, c)
        /\ IF IsEmpty(KindAt(pre, Target))
           THEN /\ KindAt(field, Target) = Mine
                /\ \A c \in Cells \ {Target} :
                       KindAt(field, c) =
                           IF Adjacent(c, Target) /\ IsEmpty(KindAt(pre, c))
                           THEN Empty(Count(KindAt(pre, c)) + 1)
                           ELSE KindAt(pre, c)
           ELSE field = pre

\* place_mine on a spot that already is a mine and has a neighbour of kind Empty
C22_Witness ==
    /\ call.op = "place_mine"
    /\ IsMine(KindAt(pre, Target))
    /\ \E c \in Cells : Adjacent(c, Target) /\ IsEmpty(KindAt(field, c))

\* the spots carrying a flag
FlaggedSpots == {c \in Cells : StateAt(field, c) = "Flagged"}

(***************************************************************************)
(* C23: in every reachable state of the application, remaining_flags is    *)
(* the mine count of the field minus the number of spots in state Flagged, *)
(* after any sequence of Step, AutoStep, Flag and Reset messages.          *)
(***************************************************************************)
C23_RemainingFlags == remaining_flags = mines - Cardinality(FlaggedSpots)

\* the spots of the canvas, which is where Step, AutoStep and Flag take their coordinates
Spots == (0..(width - 1)) \X (0..(height - 1))

(***************************************************************************)
(* C24: a Step or Flag message received while the game is Ready first      *)
(* makes it Running, with the elapsed time at zero, and is then applied to *)
(* the field; an AutoStep message received while the game is Ready does    *)
(* not start the game and changes neither the game state nor the field.    *)
(***************************************************************************)
C24_ReadyToRunning ==
    [][game_state = Ready =>
        /\ message' = "Step" =>
              /\ elapsed_seconds' = 0
              /\ \E c \in Spots :
                    LET r == StepOp(field, width, height, c[1], c[2])
                    IN /\ field' = r.field
                       /\ game_state' = AfterStep(Running(now), r, width, height)
              /\ remaining_flags' = remaining_flags
        /\ message' = "Flag" =>
              /\ elapsed_seconds' = 0
              /\ \E c \in Spots :
                    LET r == ToggleFlagOp(field, width, height, c[1], c[2])
                    IN /\ field' = r.field
                       /\ r.result = "Added"
                       /\ remaining_flags' = remaining_flags - 1
                       /\ game_state' = IF IsCleared(r.field, width, height)
                                        THEN Stopped(TRUE) ELSE Running(now)
        /\ message' = "AutoStep" =>
              /\ game_state' = Ready
              /\ field' = field
              /\ elapsed_seconds' = elapsed_seconds
              /\ remaining_flags' = remaining_flags
    ]_vars

\* a game started by a Step at a later time than zero: one spot shown, no time elapsed
C24_Witness ==
    /\ message = "Step"
    /\ game_state = Running(now)
    /\ now > 0
    /\ elapsed_seconds = 0
    /\ Cardinality({c \in Spots : StateAt(field, c) # "Hidden"}) = 1
    /\ Cardinality(Spots) >= 2

(***************************************************************************)
(* C25: Step, AutoStep and Flag messages change the field and              *)
(* remaining_flags only when the game is Running at the time the field is  *)
(* called (Ready having been made Running by Step and Flag); while the     *)
(* game is Paused or Stopped they leave the field, remaining_flags and the *)
(* game state unchanged.                                                   *)
(***************************************************************************)
C25_OnlyWhenRunning ==
    [][message' \in {"Step", "AutoStep", "Flag"} =>
        /\ game_state.tag \in {"Paused", "Stopped"} =>
              /\ field' = field
              /\ remaining_flags' = remaining_flags
              /\ game_state' = game_state
        /\ (field' # field \/ remaining_flags' # remaining_flags) =>
              \/ game_state.tag = "Running"
              \/ game_state.tag = "Ready" /\ message' \in {"Step", "Flag"}
    ]_vars

\* a Step handled while the game is Paused, on a field with a spot left to step on
C25_Witness ==
    /\ message = "Step"
    /\ game_state = Paused
    /\ \E c \in Spots : StateAt(field, c) = "Hidden" /\ IsEmpty(KindAt(field, c))

SomeExploded == \E c \in Spots : StateAt(field, c) = "Exploded"

(***************************************************************************)
(* C26: in every reachable state of the application, a game that is        *)
(* Stopped and won has a cleared field, a game that is Stopped and lost    *)
(* has an Exploded spot, and a game that is Ready, Running or Paused has   *)
(* no Exploded spot and a field that is not cleared.                       *)
(***************************************************************************)
C26_GameStateAndField ==
    /\ game_state = Stopped(TRUE) => IsCleared(field, width, height)
    /\ game_state = Stopped(FALSE) => SomeExploded
    /\ game_state.tag \in {"Ready", "Running", "Paused"} =>
          ~SomeExploded /\ ~IsCleared(field, width, height)

\* a game won by planting the last flag
C26_Witness ==
    /\ game_state = Stopped(TRUE)
    /\ message = "Flag"
    /\ IsCleared(field, width, height)
    /\ \E c \in Spots : StateAt(field, c) = "Flagged"

\* every spot of the field is Hidden
AllHidden == \A c \in Spots : StateAt(field, c) = "Hidden"

(***************************************************************************)
(* C27: once the game is Stopped it stays Stopped with the same is_won,    *)
(* and the field stays unchanged, under every message except Reset and     *)
(* Settings(Set), both of which return the game to Ready with a fresh      *)
(* field.                                                                  *)
(***************************************************************************)
C27_StoppedStays ==
    [][game_state.tag = "Stopped" =>
        IF message' \in {"Reset", "Settings(Set)"}
        THEN /\ game_state' = Ready
             /\ AllHidden'
        ELSE /\ game_state' = game_state
             /\ field' = field
    ]_vars

\* a stopped game over which the Info view was opened and closed, and time went by
C27_Witness ==
    /\ game_state.tag = "Stopped"
    /\ message = "Info"
    /\ main_view = "Game"
    /\ now > 0

(***************************************************************************)
(* C28 (as stated): a Reset message, received in any game state and any    *)
(* view, leaves the game Ready with the Game view shown, the elapsed time  *)
(* at zero, remaining_flags equal to the configured mine count, and a new  *)
(* field of the configured width and height in which every spot is Hidden. *)
(***************************************************************************)
C28_ResetAsStated ==
    message = "Reset" =>
        /\ game_state = Ready
        /\ main_view = "Game"
        /\ elapsed_seconds = 0
        /\ remaining_flags = game_config.mines
        /\ width = game_config.width
        /\ height = game_config.height
        /\ DOMAIN field = 0..(width - 1)
        /\ \A x \in DOMAIN field : DOMAIN field[x] = 0..(height - 1)
        /\ AllHidden

(***************************************************************************)
(* C28 (amended): a Reset message, received in any game state and any      *)
(* view, leaves the game Ready with the Game view shown, the elapsed time  *)
(* at zero, remaining_flags equal to the configured mine count, and a new  *)
(* field in which every spot is Hidden, of the configured width and        *)
(* height, a configured width or height of zero giving a field of width or *)
(* height one.                                                             *)
(***************************************************************************)
C28_Reset ==
    message = "Reset" =>
        /\ game_state = Ready
        /\ main_view = "Game"
        /\ elapsed_seconds = 0
        /\ remaining_flags = game_config.mines
        /\ width = (IF game_config.width = 0 THEN 1 ELSE game_config.width)
        /\ height = (IF game_config.height = 0 THEN 1 ELSE game_config.height)
        /\ DOMAIN field = 0..(width - 1)
        /\ \A x \in DOMAIN field : DOMAIN field[x] = 0..(height - 1)
        /\ AllHidden

\* a Reset at a later time than zero, of a game configured with a width of zero
C28_Witness ==
    /\ message = "Reset"
    /\ game_config.width = 0
    /\ width = 1
    /\ now > 0

\* the step is the handling of a message: update records the message and leaves the clock
Handled(msg) == message' = msg /\ now' = now

\* the message that opens a view, and closes it when it is the view shown
ViewMessage(view) ==
    CASE view = "Info" -> "Info"
      [] view = "Settings" -> "Settings(Show)"
      [] view = "HighScores" -> "HighScores"

(***************************************************************************)
(* C29: opening the Info, Settings or HighScores view while the game is    *)
(* Running makes it Paused, and closing that view (the same message again, *)
(* or Settings Discard) makes it Running again with the field unchanged;   *)
(* a game that is Ready or Stopped when the view is opened is left in its  *)
(* game state by the opening and by the closing.                           *)
(***************************************************************************)
C29_OpenAndClose ==
    [][\A view \in {"Info", "Settings", "HighScores"} :
        /\ (Handled(ViewMessage(view)) /\ main_view # view) =>
              /\ main_view' = view
              /\ field' = field
              /\ game_state' = (IF game_state.tag = "Running" THEN Paused ELSE game_state)
        /\ (/\ main_view = view
            /\ \/ Handled(ViewMessage(view))
               \/ view = "Settings" /\ Handled("Settings(Discard)")) =>
              /\ main_view' = "Game"
              /\ field' = field
              /\ game_state' = (IF game_state.tag = "Paused" THEN Running(now) ELSE game_state)
    ]_vars

\* a game started at time zero, set going again by the Info message that closed the Info view
C29_Witness ==
    /\ message = "Info"
    /\ main_view = "Game"
    /\ game_state = Running(now)
    /\ now > 0
    /\ \E c \in Spots : StateAt(field, c) # "Hidden"

(***************************************************************************)
(* C30: a Tick message changes the state of the application only when the  *)
(* game is Running, where it advances elapsed_seconds; while the game is   *)
(* Ready, Paused or Stopped a Tick leaves elapsed_seconds and everything   *)
(* else unchanged; the tick subscription is active only while the game is  *)
(* Running.                                                                *)
(***************************************************************************)
C30_Tick ==
    [][/\ Handled("Tick") =>
            /\ IF game_state.tag = "Running"
               THEN /\ elapsed_seconds' = elapsed_seconds + (now - game_state.instant)
                    /\ elapsed_seconds' >= elapsed_seconds
                    /\ game_state' = Running(now)
               ELSE UNCHANGED <<elapsed_seconds, game_state>>
            /\ UNCHANGED <<field, width, height, mines, main_view, remaining_flags,
                           game_config, now>>
       /\ TickSubscribed => game_state.tag = "Running"
    ]_vars

\* a Tick that counted the time gone by since the game was started
C30_Witness ==
    /\ message = "Tick"
    /\ game_state = Running(now)
    /\ elapsed_seconds > 0

(***************************************************************************)
(* C32: when every Flagged neighbour of a Revealed Empty spot (x, y) is a   *)
(* mine and the number of its Flagged neighbours equals its neighbour-mine  *)
(* count, auto_step(x, y) returns Phew and explodes no mine.                *)
(***************************************************************************)
FlagsAroundOnMines(f, c) ==
    \A d \in Cells : (Adjacent(c, d) /\ StateAt(f, d) = "Flagged") => IsMine(KindAt(f, d))

C32_AutoStepSafe ==
    (AutoSteppedSatisfied /\ FlagsAroundOnMines(pre, Target)) =>
        /\ result = "Phew"
        /\ \A c \in Cells : StateAt(field, c) = "Exploded" => StateAt(pre, c) = "Exploded"

\* a chord with a mine flagged beside it that revealed a hidden neighbour
C32_Witness ==
    /\ AutoSteppedSatisfied
    /\ FlagsAroundOnMines(pre, Target)
    /\ Count(KindAt(pre, Target)) > 0
    /\ \E c \in Cells : /\ Adjacent(c, Target)
                        /\ StateAt(pre, c) = "Hidden"
                        /\ StateAt(field, c) = "Revealed"
    /\ result = "Phew"

(***************************************************************************)
(* C33: in every reachable state of the field no spot of kind Mine is       *)
(* Revealed and no spot of kind Empty is Exploded.                          *)
(***************************************************************************)
C33_KindAndState ==
    \A c \in Cells :
        /\ IsMine(KindAt(field, c)) => StateAt(field, c) # "Revealed"
        /\ IsEmpty(KindAt(field, c)) => StateAt(field, c) # "Exploded"

\* a field with an exploded mine beside a revealed empty spot
C33_Witness ==
    \E c, d \in Cells :
        /\ Adjacent(c, d)
        /\ IsMine(KindAt(field, c)) /\ StateAt(field, c) = "Exploded"
        /\ IsEmpty(KindAt(field, d)) /\ StateAt(field, d) = "Revealed"

(***************************************************************************)
(* C34: once a mine is Exploded, is_cleared() is false in every later       *)
(* state, whatever step, auto_step and toggle_flag calls follow.            *)
(***************************************************************************)
AnExplodedMine == \E c \in Cells : StateAt(field, c) = "Exploded"

C34_ExplodedNeverCleared == [](AnExplodedMine => [](~IsCleared(field, width, height)))

\* an exploded mine is all that keeps the field from being cleared, and toggle_flag
\* was called on it
C34_Witness ==
    /\ call.op = "toggle_flag"
    /\ TargetInBounds
    /\ StateAt(pre, Target) = "Exploded"
    /\ \A c \in Cells :
          IF IsMine(KindAt(field, c))
          THEN StateAt(field, c) \in {"Flagged", "Exploded"}
          ELSE StateAt(field, c) = "Revealed"
    /\ \E c \in Cells : StateAt(field, c) = "Flagged"

(***************************************************************************)
(* C35: step is idempotent: step(x, y) called a second time right after     *)
(* the first returns what the first returned and leaves the field exactly   *)
(* as the first left it.                                                    *)
(***************************************************************************)
C35_StepIdempotent ==
    call.op = "step" =>
        LET again == StepOp(field, width, height, call.x, call.y)
        IN /\ again.result = result
           /\ again.field = field

\* a step on a spot beside a flag that was taken away after the spot was revealed:
\* the flood reveal of the first call left nothing for the second
C35_Witness ==
    /\ call.op = "step"
    /\ TargetInBounds
    /\ StateAt(pre, Target) = "Revealed"
    /\ Count(KindAt(pre, Target)) = 0
    /\ field # pre
    /\ result = "Phew"

AscendingSeconds(list) == \A i \in 1..(Len(list) - 1) : list[i] <= list[i + 1]

SortedAtMostThree ==
    \A level \in Levels :
        /\ AscendingSeconds(high_scores[level].scores)
        /\ Len(high_scores[level].scores) <= 3

\* a step that is a call of insert_high_score does to the list what the claim says
InsertedAsClaimed ==
    hs_call'.op = "insert_high_score" =>
        LET level == hs_call'.level
            seconds == hs_call'.seconds
            old == high_scores[level].scores
            new == high_scores'[level].scores
            more == {i \in 1..Len(old) : old[i] > seconds}
            first == CHOOSE i \in more : \A j \in more : i <= j
        IN /\ \A other \in Levels \ {level} : high_scores'[other] = high_scores[other]
           /\ IF more # {}
              THEN /\ hs_result' = <<"Some", first - 1>>
                   /\ \A i \in 1..(first - 1) : new[i] = old[i]
                   /\ new[first] = seconds
                   /\ \A i \in (first + 1)..Len(new) : new[i] = old[i - 1]
                   /\ Len(new) = (IF Len(old) < 3 THEN Len(old) + 1 ELSE 3)
              ELSE IF Len(old) < 3
                   THEN /\ hs_result' = <<"Some", Len(old)>>
                        /\ new = Append(old, seconds)
                   ELSE /\ hs_result' = <<"None">>
                        /\ high_scores' = high_scores

C31_HighScores == [](SortedAtMostThree) /\ [][InsertedAsClaimed]_vars

\* a score that beats no entry of a full list, refused
C31_Witness ==
    /\ hs_call.op = "insert_high_score"
    /\ hs_result = <<"None">>
    /\ Len(high_scores[hs_call.level].scores) = 3
    /\ high_scores[hs_call.level].scores[3] = hs_call.seconds

====
